---- MODULE Spec2Model ----
(***************************************************************************)
(* ValTime: the communication overlay (overlay.py) and the animation       *)
(* player (animation_player.py).                                           *)
(*                                                                         *)
(* The overlay is a Qt widget whose handlers run one at a time on the GUI  *)
(* thread; a pynput listener thread turns key presses into queued signals; *)
(* QTimer.singleShot timers hide the widget; every terminal selection      *)
(* starts a threading.Timer thread that synthesizes keyboard input.        *)
(***************************************************************************)
EXTENDS Integers, Sequences, FiniteSets, TLC

(***************************************************************************)
(* Bounds of the model (not program constants).                            *)
(***************************************************************************)
\* the key presses and mouse clicks of the user in one behaviour
MaxUserEvents == 4
\* the clicks and edits of the user in the window of the player
MaxPlayerEvents == 3
\* the longest frame sequence, the largest stride and the number of distinct
\* frame texts the playback subsequence is computed for
MaxFrames == 5
MaxStride == 7
MaxTexts == 2
\* the tallest and widest sprite and the widest screen the frame generator
\* is applied to, besides the truck's own 13 x 26 on 26
MaxLines == 2
MaxSpriteWidth == 2
MaxScreenWidth == 3

(***************************************************************************)
(* The menu tables of CommunicationMenu.__init__ .                         *)
(***************************************************************************)
main_options ==
    << "Rocket League", "Animations", "Combat", "Tactics", "Social", "Strategy" >>

builtin_menus == { "Combat", "Tactics", "Social", "Strategy" }

animation_menus == { "Animations" }

valorant_menu_keys ==
    [ m \in builtin_menus |->
        CASE m = "Combat" -> 1
          [] m = "Tactics" -> 2
          [] m = "Social" -> 3
          [] m = "Strategy" -> 4 ]

submenu_names ==
    { "Combat", "Tactics", "Social", "Strategy", "Rocket League", "Animations" }

submenus ==
    [ m \in submenu_names |->
        CASE m = "Combat" ->
               << "Need Support", "Caution here!", "Need Healing!", "On My Way",
                  "Ultimate Status" >>
          [] m = "Tactics" ->
               << "I'll Take Point", "Let's rush them!", "Be Quiet", "Fall Back!",
                  "Play For Picks" >>
          [] m = "Social" ->
               << "Thanks", "Commend", "Yes", "No", "Sorry", "Hello" >>
          [] m = "Strategy" ->
               << "Going A", "Going B", "Going C", "Going Mid" >>
          [] m = "Rocket League" ->
               << "What a save!", "Nice shot!", "Thanks!", "Well played!" >>
          [] m = "Animations" ->
               << "Truck" >> ]

\* the digit keys the listener maps to select_signal: key.char in '123456'
select_digits == 1 .. 6

\* QTimer.singleShot delays of select_option, in milliseconds
HIDE_DELAY_BUILTIN == 500
HIDE_DELAY_ANIMATION == 50
HIDE_DELAY_CUSTOM == 50

(***************************************************************************)
(* animation_player.py: the sprite, the frame generator, the wire          *)
(* formatter.  A character is its Unicode code point, a line a sequence of *)
(* characters, a frame object a record of its identity (what Python's `is`  *)
(* compares) and its lines.                                                *)
(*   9618 U+2592 medium shade (the background glyph), 9608 full block,     *)
(*   9600 upper half, 9604 lower half, 9612 left half, 9616 right half,    *)
(*   9553 double vertical, 9625/9627/9628/9631 quadrant blocks.            *)
(***************************************************************************)
TRUCK_SPRITE ==
    <<
       << 9618, 9618, 9618, 9618, 9618, 9618, 9618, 9618, 9618, 9618, 9618, 9618, 9618,
          9618, 9618, 9618, 9618, 9618, 9618, 9618, 9618, 9618, 9618, 9618, 9618, 9618 >>,
       << 9618, 9618, 9618, 9618, 9618, 9618, 9618, 9618, 9618, 9618, 9618, 9618, 9618,
          9618, 9618, 9618, 9618, 9618, 9618, 9618, 9618, 9618, 9618, 9618, 9618, 9618 >>,
       << 9627, 9600, 9600, 9600, 9600, 9600, 9600, 9600, 9600, 9600, 9600, 9600, 9600,
          9600, 9600, 9600, 9600, 9600, 9600, 9600, 9608, 9618, 9618, 9618, 9618, 9618 >>,
       << 9612, 9618, 9618, 9618, 9618, 9618, 9618, 9618, 9618, 9618, 9618, 9618, 9618,
          9618, 9618, 9618, 9618, 9618, 9618, 9618, 9608, 9604, 9604, 9604, 9618, 9618 >>,
       << 9612, 9618, 9618, 9618, 9618, 9618, 9618, 9618, 9618, 9618, 9618, 9618, 9618,
          9618, 9618, 9618, 9618, 9618, 9618, 9618, 9608, 9618, 9618, 9616, 9618, 9618 >>,
       << 9612, 9618, 9618, 9618, 9600, 9600, 9628, 9618, 9600, 9600, 9628, 9618, 9627,
          9628, 9618, 9627, 9628, 9618, 9618, 9618, 9608, 9553, 9608, 9616, 9618, 9618 >>,
       << 9612, 9604, 9604, 9618, 9604, 9604, 9631, 9618, 9604, 9604, 9631, 9553, 9625,
          9631, 9618, 9625, 9631, 9618, 9618, 9618, 9608, 9553, 9612, 9616, 9618, 9618 >>,
       << 9612, 9618, 9618, 9618, 9612, 9618, 9618, 9618, 9612, 9618, 9618, 9618, 9612,
          9612, 9618, 9612, 9612, 9618, 9618, 9618, 9608, 9608, 9608, 9608, 9608, 9618 >>,
       << 9612, 9618, 9618, 9618, 9625, 9604, 9604, 9618, 9625, 9604, 9604, 9618, 9612,
          9625, 9618, 9612, 9625, 9618, 9618, 9618, 9608, 9608, 9608, 9608, 9608, 9618 >>,
       << 9612, 9618, 9618, 9618, 9618, 9618, 9618, 9618, 9618, 9618, 9618, 9618, 9618,
          9618, 9618, 9618, 9618, 9618, 9618, 9618, 9608, 9608, 9608, 9608, 9608, 9618 >>,
       << 9625, 9604, 9604, 9604, 9604, 9604, 9604, 9604, 9604, 9604, 9604, 9604, 9604,
          9604, 9604, 9604, 9604, 9604, 9604, 9604, 9608, 9608, 9608, 9608, 9608, 9618 >>,
       << 9618, 9618, 9627, 9628, 9627, 9628, 9618, 9618, 9618, 9618, 9618, 9618, 9618,
          9618, 9618, 9618, 9627, 9628, 9627, 9628, 9618, 9618, 9618, 9618, 9618, 9618 >>,
       << 9618, 9618, 9625, 9631, 9625, 9631, 9618, 9618, 9618, 9618, 9618, 9618, 9618,
          9618, 9618, 9618, 9625, 9631, 9625, 9631, 9618, 9618, 9618, 9618, 9618, 9618 >>
    >>

BG_CHAR == 9618
SCREEN_WIDTH == 26
TRUCK_WIDTH == 26
SPACE == 32

\* str.rstrip() and str.strip() strip the characters for which str.isspace()
\* holds: tab .. carriage return, the separators 28..31, the space, U+0085,
\* U+00A0, U+1680, U+2000..U+200A, U+2028, U+2029, U+202F, U+205F, U+3000
WHITESPACE ==
    (9 .. 13) \cup (28 .. 32) \cup { 133, 160, 5760 } \cup (8192 .. 8202)
    \cup { 8232, 8233, 8239, 8287, 12288 }

\* range(lo, hi) as a sequence
Range(lo, hi) == [ j \in 1 .. (IF hi > lo THEN hi - lo ELSE 0) |-> lo + j - 1 ]

\* the mutant of frame_line: the sprite column is taken from the wrong side
frame_line_mirrored(sprite_line, truck_pos, truck_width, screen_width) ==
    [ c \in 1 .. screen_width |->
        LET screen_x == c - 1
            truck_x == truck_pos - screen_x
        IN  IF 0 <= truck_x /\ truck_x < truck_width
              THEN sprite_line[truck_x + 1]
              ELSE BG_CHAR ]

\* the line of one sprite line at truck position truck_pos:
\* for screen_x in range(screen_width): truck_x = screen_x - truck_pos ...
frame_line(sprite_line, truck_pos, truck_width, screen_width) ==
    [ c \in 1 .. screen_width |->
        LET screen_x == c - 1
            truck_x == screen_x - truck_pos
        IN  IF 0 <= truck_x /\ truck_x < truck_width
              THEN sprite_line[truck_x + 1]
              ELSE BG_CHAR ]

\* the mutant of generate_frames: the last position is left out
generate_frames_without_exit(sprite, truck_width, screen_width) ==
    LET positions == Range(-truck_width, screen_width)
    IN  [ f \in 1 .. Len(positions) |->
            [ id |-> f - 1,
              lines |-> [ r \in 1 .. Len(sprite) |->
                            frame_line(sprite[r], positions[f], truck_width,
                                       screen_width) ] ] ]

\* generate_truck_frames over a sprite and a geometry: one frame per
\* truck_pos in range(-truck_width, screen_width + 1), each a fresh list
\* object (its identity is its position in the result)
generate_frames(sprite, truck_width, screen_width) ==
    LET positions == Range(-truck_width, screen_width + 1)
    IN  [ f \in 1 .. Len(positions) |->
            [ id |-> f - 1,
              lines |-> [ r \in 1 .. Len(sprite) |->
                            frame_line(sprite[r], positions[f], truck_width,
                                       screen_width) ] ] ]

generate_truck_frames == generate_frames(TRUCK_SPRITE, TRUCK_WIDTH, SCREEN_WIDTH)

TRUCK_ANIMATION == generate_truck_frames

RECURSIVE concat_lines(_)
\* result = ""; for line in frame_lines: result += line + " "
concat_lines(frame_lines) ==
    IF frame_lines = << >> THEN << >>
    ELSE Head(frame_lines) \o << SPACE >> \o concat_lines(Tail(frame_lines))

RECURSIVE rstrip(_)
rstrip(s) ==
    IF s # << >> /\ s[Len(s)] \in WHITESPACE
      THEN rstrip(SubSeq(s, 1, Len(s) - 1))
      ELSE s

format_frame_for_valorant(frame_lines) == rstrip(concat_lines(frame_lines))

(***************************************************************************)
(* The playback subsequence, as play_animation (overlay.py) and            *)
(* play_thread (animation_player.py) build it.                             *)
(***************************************************************************)
\* the indices (from 0) that the slice [::step] takes of a list of n items
slice_indices(n, step) ==
    IF step > 0
      THEN [ j \in 1 .. ((n + step - 1) \div step) |-> (j - 1) * step ]
      ELSE [ j \in 1 .. ((n + (-step) - 1) \div (-step)) |->
               (n - 1) - (j - 1) * (-step) ]

\* list(frames[::skip])
slice_frames(frames, skip) ==
    LET ix == slice_indices(Len(frames), skip)
    IN  [ j \in 1 .. Len(ix) |-> frames[ix[j] + 1] ]

\* the mutant of frames_to_play: the last frame is never appended
frames_to_play_without_last(frames, skip) == slice_frames(frames, skip)

\* frames_to_play = list(frames[::skip]);
\* if frames and frames_to_play[-1] is not frames[-1]: append(frames[-1])
frames_to_play(frames, skip) ==
    LET base == slice_frames(frames, skip)
    IN  IF frames # << >> /\ base[Len(base)].id # frames[Len(frames)].id
          THEN Append(base, frames[Len(frames)])
          ELSE base

\* play_thread of AnimationPlayer.start_playback builds the same subsequence
\* from self.frames and self.skip_frames
play_thread_frames_to_play(frames, skip_frames) ==
    LET base == slice_frames(frames, skip_frames)
    IN  IF frames # << >> /\ base[Len(base)].id # frames[Len(frames)].id
          THEN Append(base, frames[Len(frames)])
          ELSE base

(***************************************************************************)
(* The persisted configuration, animation_config.json.  A JSON object is a *)
(* function on the keys it has; durations are in milliseconds.             *)
(***************************************************************************)
\* the defaults of anim_config.get("skip_frames", 5) and .get("frame_delay", 0.5)
DEFAULT_SKIP == 5
DEFAULT_DELAY == 500

\* the JSON document {"animations": {"Truck": {"skip_frames": .., "frame_delay": ..}}}
TruckEntry(skip, delay) ==
    [ animations |-> [ Truck |-> [ skip_frames |-> skip, frame_delay |-> delay ] ] ]

\* the file: absent, present with the document json.load returns, or
\* present with text that json.load rejects (JSONDecodeError)
NoFile == [ exists |-> FALSE, parses |-> FALSE, json |-> << >> ]
File(doc) == [ exists |-> TRUE, parses |-> TRUE, json |-> doc ]
CorruptFile == [ exists |-> TRUE, parses |-> FALSE, json |-> << >> ]

\* the file contents considered
ConfigFiles == { NoFile, File(TruckEntry(5, 500)), File(TruckEntry(26, 100)) }

\* hand-written files whose stride no spin box has produced
EditedConfigFiles == { File(TruckEntry(0, 500)), File(TruckEntry(-26, 500)) }

\* files that lack fields, or hold a second animation
PartialConfigFiles ==
    { File(<< >>),
      File([ animations |-> << >> ]),
      File([ animations |-> [ Truck |-> << >> ] ]),
      File([ animations |-> [ Truck |-> [ skip_frames |-> 3 ] ] ]),
      File([ animations |-> [ Car |-> [ skip_frames |-> 2, frame_delay |-> 200 ] ] ]),
      File([ animations |-> [ Truck |-> [ skip_frames |-> 5, frame_delay |-> 500 ],
                              Car |-> [ skip_frames |-> 2, frame_delay |-> 200 ] ] ]) }

\* dict.get(key, default)
Get(d, key, default) == IF key \in DOMAIN d THEN d[key] ELSE default

\* load_animation_config catches FileNotFoundError only: the JSONDecodeError
\* of a file that does not parse leaves the function as an exception
load_raises(file) == file.exists /\ ~file.parses

\* load_animation_config of trigger_animation: the parsed file, or the
\* built-in default when the file does not exist
overlay_load_animation_config(file) ==
    IF file.exists THEN file.json ELSE TruckEntry(5, 500)

\* load_animation_config of animation_player.py, the same
load_animation_config(file) ==
    IF file.exists THEN file.json ELSE TruckEntry(5, 500)

\* anim_config = config.get("animations", {}).get(animation_name, {})
anim_config_of(config, animation_name) ==
    Get(Get(config, "animations", << >>), animation_name, << >>)

(***************************************************************************)
(* The injection threads.  A thread is a record: kind is the function the  *)
(* threading.Timer runs, pc is "timer" until the timer fires and "run"     *)
(* afterwards, k counts the events of the current payload already emitted,  *)
(* sleep is the time.sleep the thread is in (0: none).                      *)
(***************************************************************************)
Ev(act, key, sleep) == [ act |-> act, key |-> key, sleep |-> sleep ]

Digit(n) ==
    CASE n = 1 -> "1" [] n = 2 -> "2" [] n = 3 -> "3"
      [] n = 4 -> "4" [] n = 5 -> "5" [] n = 6 -> "6"

DigitValue(key) == CHOOSE n \in select_digits : Digit(n) = key

DigitKeys == { Digit(n) : n \in select_digits }

\* the mutant of do_voiceline: the sub digit is sent before the main digit
do_voiceline_sub_first(main_num, sub_num) ==
    << Ev("press", "backslash", 0), Ev("release", "backslash", 80),
       Ev("press", Digit(sub_num), 0), Ev("release", Digit(sub_num), 80),
       Ev("press", Digit(main_num), 0), Ev("release", Digit(main_num), 0) >>

\* do_voiceline: the wheel key, the main digit, the sub digit
do_voiceline(main_num, sub_num) ==
    << Ev("press", "backslash", 0), Ev("release", "backslash", 80),
       Ev("press", Digit(main_num), 0), Ev("release", Digit(main_num), 80),
       Ev("press", Digit(sub_num), 0), Ev("release", Digit(sub_num), 0) >>

\* the mutant of do_type: shift is released while enter is still held
do_type_shift_released_first ==
    << Ev("copy", "clipboard", 0),
       Ev("press", "shift", 10), Ev("press", "enter", 10),
       Ev("release", "shift", 10), Ev("release", "enter", 30),
       Ev("press", "ctrl", 0), Ev("press", "v", 0),
       Ev("release", "v", 0), Ev("release", "ctrl", 20),
       Ev("press", "enter", 0), Ev("release", "enter", 0) >>

\* do_type: clipboard, Shift+Enter, Ctrl+V, Enter
do_type ==
    << Ev("copy", "clipboard", 0),
       Ev("press", "shift", 10), Ev("press", "enter", 10),
       Ev("release", "enter", 10), Ev("release", "shift", 30),
       Ev("press", "ctrl", 0), Ev("press", "v", 0),
       Ev("release", "v", 0), Ev("release", "ctrl", 20),
       Ev("press", "enter", 0), Ev("release", "enter", 0) >>

\* the body of play_animation's loop for one frame: clipboard, Shift+Enter,
\* Ctrl+V, Enter, then time.sleep(frame_delay)
play_frame(frame_delay) ==
    << Ev("copy", "clipboard", 10),
       Ev("press", "shift", 10), Ev("press", "enter", 10),
       Ev("release", "enter", 10), Ev("release", "shift", 20),
       Ev("press", "ctrl", 0), Ev("press", "v", 0),
       Ev("release", "v", 0), Ev("release", "ctrl", 10),
       Ev("press", "enter", 0), Ev("release", "enter", frame_delay) >>

\* AnimationPlayer.type_line_in_chat: clipboard, Shift+Enter, Ctrl+V, Enter
type_line_in_chat ==
    << Ev("copy", "clipboard", 10),
       Ev("press", "shift", 10), Ev("press", "enter", 10),
       Ev("release", "enter", 10), Ev("release", "shift", 20),
       Ev("press", "ctrl", 0), Ev("press", "v", 0),
       Ev("release", "v", 0), Ev("release", "ctrl", 10),
       Ev("press", "enter", 0), Ev("release", "enter", 0) >>

\* a thread as threading.Timer(...).start() leaves it
NewThread(kind, main_num, sub_num, text) ==
    [ kind |-> kind, pc |-> "timer", main_num |-> main_num, sub_num |-> sub_num,
      text |-> text, plan |-> << >>, delay |-> 0, cursor |-> 0, k |-> 0,
      sleep |-> 0, sent |-> << >> ]

\* the start delays of the three threading.Timer calls, in milliseconds
VOICE_START == 50
ANIM_START == 100
TYPE_START == 50

(***************************************************************************)
(* The state of the overlay process, and the input and result of the pure  *)
(* functions.                                                              *)
(***************************************************************************)
VARIABLES
    started,            \* main() has shown the widget and app.exec() runs
    visible,            \* QWidget.isVisible()
    current_menu,       \* "main" or a submenu name
    main_menu_index,    \* the main option that was selected last (1-based)
    selection_pending,  \* the selection lock
    options,            \* the option list in use
    sigq,               \* signals emitted by the listener, not yet handled
    listening,          \* the listener thread has not ended
    hide_timers,        \* pending QTimer.singleShot(d, self.hide), by delay d
    tasks,              \* the injection threads that have not exited
    config_file,        \* animation_config.json
    session_dispatches, \* history: threads started since the last show
    last_op,            \* history: the handler that ran last, or the key pressed
    user_events,        \* history: key presses and clicks of the user so far
    timer_left,         \* the pending hide timers with the time left to each
    task_left,          \* for each thread, the time left of its timer or sleep
    since,              \* history: time and user inputs since the last dispatch
    clipboard,          \* the payload on the system clipboard
    last_paste,         \* history: what the last Ctrl+V pasted, and whose it was
    fn_in,              \* the argument of the pure function applied
    fn_out,             \* its result
    is_playing,         \* AnimationPlayer.is_playing
    player_skip_frames, \* AnimationPlayer.skip_frames
    player_frame_delay, \* AnimationPlayer.frame_delay, in milliseconds
    player_config,      \* AnimationPlayer.config, the document in memory
    player_frames,      \* AnimationPlayer.frames
    current_row,        \* frames_list.currentRow(), -1 when no row is current
    frame_editor,       \* the text of frame_editor
    in_handler,         \* the handler of the player that is under way
    play_enabled,       \* play_btn.isEnabled()
    stop_enabled,       \* stop_btn.isEnabled()
    start_timers,       \* pending QTimer.singleShot(3000, self.start_playback)
    threads,            \* the play_thread threads that have not exited
    completes,          \* animation_complete signals emitted, not yet handled
    player_events       \* history: clicks of the user in the player so far

nav == << visible, current_menu, main_menu_index, selection_pending, options >>

\* the state only the specification in real time changes
timed_vars == << timer_left, task_left, since, clipboard, last_paste >>

overlay_vars == << started, visible, current_menu, main_menu_index,
                   selection_pending, options, sigq, listening, hide_timers,
                   tasks, config_file, session_dispatches, last_op,
                   user_events, timed_vars >>

pure_vars == << fn_in, fn_out >>

player_vars == << is_playing, player_skip_frames, player_frame_delay,
                  player_config, player_frames, current_row, frame_editor,
                  in_handler, play_enabled,
                  stop_enabled, start_timers, threads, completes,
                  player_events >>

vars == << overlay_vars, pure_vars, player_vars >>

Op(op, n) == [ op |-> op, n |-> n ]

\* a signal of the SignalBridge; synth is history: the key that caused it
\* was pressed by an injection thread, not by the user
Sig(sig, n) == [ sig |-> sig, n |-> n, synth |-> FALSE ]

synthesized(sigs) == [ j \in DOMAIN sigs |-> [ sigs[j] EXCEPT !.synth = TRUE ] ]

HideDelays == { HIDE_DELAY_BUILTIN, HIDE_DELAY_ANIMATION, HIDE_DELAY_CUSTOM }

PendingTimers == hide_timers[HIDE_DELAY_BUILTIN] + hide_timers[HIDE_DELAY_ANIMATION]

\* the mutant of singleShot: no timer is armed
singleShot_forgotten(d) == hide_timers

\* QTimer.singleShot(d, self.hide)
singleShot(d) == [ hide_timers EXCEPT ![d] = @ + 1 ]

(***************************************************************************)
(* CommunicationMenu.__init__ and init_ui: the widget is built hidden at   *)
(* the root; the listener thread is running.                               *)
(***************************************************************************)
\* the text on the clipboard: the message of type_in_chat, or the line
\* that was made of a frame (its characters)
Payload(text, line) == [ text |-> text, line |-> line ]

NoPayload == Payload("", << >>)

\* no timer is counting and nothing was dispatched or pasted
TimedIdle ==
    /\ timer_left = << >>
    /\ task_left = << >>
    /\ since = [ ms |-> 0, inputs |-> 0, kind |-> "none" ]
    /\ clipboard = NoPayload
    /\ last_paste = [ own |-> NoPayload, got |-> NoPayload ]

InitOverlay ==
    /\ TimedIdle
    /\ started = FALSE
    /\ visible = FALSE
    /\ current_menu = "main"
    /\ main_menu_index = 0
    /\ selection_pending = FALSE
    /\ options = main_options
    /\ sigq = << >>
    /\ listening = TRUE
    /\ hide_timers = [ d \in HideDelays |-> 0 ]
    /\ tasks = << >>
    /\ session_dispatches = 0
    /\ last_op = Op("other", 0)
    /\ user_events = 0

\* no pure function is being applied
PureIdle ==
    /\ fn_in = [ fn |-> "none", frames |-> << >>, skip |-> 0 ]
    /\ fn_out = [ fn |-> "none", out |-> << >> ]

\* no object
NoFrame == [ id |-> -1, kind |-> "none", body |-> << >> ]

\* the GUI thread of the player is in no handler that another thread can
\* see the middle of
NoHandler == [ pc |-> "none", row |-> -1, held |-> NoFrame ]

\* the animation player is not running
PlayerIdle ==
    /\ is_playing = FALSE
    /\ player_skip_frames = DEFAULT_SKIP
    /\ player_frame_delay = DEFAULT_DELAY
    /\ player_config = << >>
    /\ player_frames = << >>
    /\ current_row = -1
    /\ frame_editor = [ of |-> -1, text |-> << >> ]
    /\ in_handler = NoHandler
    /\ play_enabled = FALSE
    /\ stop_enabled = FALSE
    /\ start_timers = 0
    /\ threads = << >>
    /\ completes = 0
    /\ player_events = 0

Init ==
    /\ InitOverlay
    /\ config_file \in ConfigFiles
    /\ PureIdle
    /\ PlayerIdle

(***************************************************************************)
(* The handlers of the GUI thread.  Each states the next value of the      *)
(* navigation state, the timers, the threads and the session history.      *)
(***************************************************************************)
\* QWidget.hide()
hide ==
    /\ visible' = FALSE
    /\ UNCHANGED << current_menu, main_menu_index, selection_pending, options,
                    hide_timers, tasks, session_dispatches >>

\* the mutant of toggle_visibility: the show branch keeps the lock
toggle_visibility_keeps_lock ==
    IF visible
      THEN hide
      ELSE /\ current_menu' = "main"
           /\ options' = main_options
           /\ visible' = TRUE
           /\ session_dispatches' = 0
           /\ UNCHANGED << selection_pending, main_menu_index, hide_timers, tasks >>

toggle_visibility ==
    IF visible
      THEN hide
      ELSE /\ current_menu' = "main"
           /\ options' = main_options
           /\ selection_pending' = FALSE
           /\ visible' = TRUE
           /\ session_dispatches' = 0
           /\ UNCHANGED << main_menu_index, hide_timers, tasks >>

\* the mutant of select_ignored: the lock is not consulted
select_ignored_without_lock(num) ==
    \/ ~visible
    \/ num > Len(options)

\* the three early returns of select_option
select_ignored(num) ==
    \/ ~visible
    \/ selection_pending
    \/ num > Len(options)

\* threading.Timer(0.05, do_voiceline).start()
trigger_valorant_voiceline(main_num, sub_num) ==
    Append(tasks, NewThread("voice", main_num, sub_num, ""))

\* threading.Timer(0.1, play_animation).start()
trigger_animation(animation_name) ==
    Append(tasks, NewThread("anim", 0, 0, animation_name))

\* threading.Timer(0.05, do_type).start()
type_in_chat(message) ==
    Append(tasks, NewThread("type", 0, 0, message))

\* the mutant of select_in_submenu: the voice wheel hides as fast as the rest
select_in_submenu_hides_fast(num, selected) ==
    /\ selection_pending' = TRUE
    /\ session_dispatches' = session_dispatches + 1
    /\ IF current_menu \in builtin_menus
         THEN /\ tasks' = trigger_valorant_voiceline(
                              valorant_menu_keys[current_menu], num)
              /\ hide_timers' = singleShot(HIDE_DELAY_CUSTOM)
         ELSE IF current_menu \in animation_menus
           THEN /\ tasks' = trigger_animation(selected)
                /\ hide_timers' = singleShot(HIDE_DELAY_ANIMATION)
           ELSE /\ tasks' = type_in_chat(selected)
                /\ hide_timers' = singleShot(HIDE_DELAY_CUSTOM)
    /\ UNCHANGED << visible, current_menu, main_menu_index, options >>

\* the else branch of select_option: the terminal action of a submenu
select_in_submenu(num, selected) ==
    /\ selection_pending' = TRUE
    /\ session_dispatches' = session_dispatches + 1
    /\ IF current_menu \in builtin_menus
         THEN /\ tasks' = trigger_valorant_voiceline(
                              valorant_menu_keys[current_menu], num)
              /\ hide_timers' = singleShot(HIDE_DELAY_BUILTIN)
         ELSE IF current_menu \in animation_menus
           THEN /\ tasks' = trigger_animation(selected)
                /\ hide_timers' = singleShot(HIDE_DELAY_ANIMATION)
           ELSE /\ tasks' = type_in_chat(selected)
                /\ hide_timers' = singleShot(HIDE_DELAY_CUSTOM)
    /\ UNCHANGED << visible, current_menu, main_menu_index, options >>

\* the mutant of select_in_main: the origin index is stored 0-based
select_in_main_zero_based(num, selected) ==
    IF selected \in DOMAIN submenus
      THEN /\ main_menu_index' = num - 1
           /\ current_menu' = selected
           /\ options' = submenus[selected]
           /\ UNCHANGED << visible, selection_pending, hide_timers, tasks,
                           session_dispatches >>
      ELSE UNCHANGED << nav, hide_timers, tasks, session_dispatches >>

\* the main branch of select_option: navigation
select_in_main(num, selected) ==
    IF selected \in DOMAIN submenus
      THEN /\ main_menu_index' = num
           /\ current_menu' = selected
           /\ options' = submenus[selected]
           /\ UNCHANGED << visible, selection_pending, hide_timers, tasks,
                           session_dispatches >>
      ELSE UNCHANGED << nav, hide_timers, tasks, session_dispatches >>

select_option(num) ==
    IF select_ignored(num)
      THEN UNCHANGED << nav, hide_timers, tasks, session_dispatches >>
      ELSE LET selected == options[num]
           IN  IF current_menu = "main"
                 THEN select_in_main(num, selected)
                 ELSE select_in_submenu(num, selected)

\* the mutant of go_back: Back names the root but keeps the option list
go_back_keeps_options ==
    IF current_menu # "main"
      THEN /\ current_menu' = "main"
           /\ UNCHANGED << visible, main_menu_index, selection_pending, options,
                           hide_timers, tasks, session_dispatches >>
      ELSE UNCHANGED << nav, hide_timers, tasks, session_dispatches >>

\* the mutant of go_back: Back also releases the lock
go_back_clears_lock ==
    IF current_menu # "main"
      THEN /\ current_menu' = "main"
           /\ options' = main_options
           /\ selection_pending' = FALSE
           /\ UNCHANGED << visible, main_menu_index, hide_timers, tasks,
                           session_dispatches >>
      ELSE UNCHANGED << nav, hide_timers, tasks, session_dispatches >>

go_back ==
    IF current_menu # "main"
      THEN /\ current_menu' = "main"
           /\ options' = main_options
           /\ UNCHANGED << visible, main_menu_index, selection_pending,
                           hide_timers, tasks, session_dispatches >>
      ELSE UNCHANGED << nav, hide_timers, tasks, session_dispatches >>

\* the mutant of handle_back: at the root it toggles instead of hiding
handle_back_toggles ==
    IF current_menu # "main"
      THEN go_back
      ELSE toggle_visibility

handle_back ==
    IF current_menu # "main"
      THEN go_back
      ELSE hide

\* closeEvent: self.listener.stop(), which ends the listener thread, and
\* event.accept()
closeEvent == listening' = FALSE

(***************************************************************************)
(* The listener thread: on_press of setup_global_hotkeys.  It sees the     *)
(* keys the user presses and the keys the injection threads synthesize.    *)
(***************************************************************************)
\* the keys the user presses: the hotkeys, and a key for which pynput gives
\* a KeyCode whose char is None (the 5 of the number pad without Num Lock)
UserKeys == { "period", "esc", "char_none" } \cup DigitKeys

\* on_press ends with an exception that its `except AttributeError` does
\* not catch: for a key whose char is None the test `key.char in '123456'`
\* raises TypeError, for a key whose char is '' int('') raises ValueError;
\* both tests are reached only while the overlay is visible.  The exception
\* leaves the callback and ends the listener thread.
on_press_raises(key) == visible /\ key \in { "char_none", "char_empty" }

\* the signals on_press emits for one key, in the order it emits them
on_press(key) ==
    (IF key = "period" THEN << Sig("toggle", 0) >> ELSE << >>)
    \o (IF visible /\ key \in DigitKeys
          THEN << Sig("select", DigitValue(key)) >> ELSE << >>)
    \o (IF key = "esc" /\ visible THEN << Sig("back", 0) >> ELSE << >>)

(***************************************************************************)
(* The steps of the injection threads.                                     *)
(***************************************************************************)
Remove(seq, i) == SubSeq(seq, 1, i - 1) \o SubSeq(seq, i + 1, Len(seq))

\* the events of the payload thread t is emitting
Events(t) ==
    CASE t.kind = "voice" -> do_voiceline(t.main_num, t.sub_num)
      [] t.kind = "type" -> do_type
      [] t.kind = "anim" -> play_frame(t.delay)

\* play_animation up to its loop: the name test, the configuration and the
\* playback subsequence (the identities of the frames to play)
play_animation_start(t, file) ==
    IF t.text # "Truck" \/ load_raises(file)
      THEN [ t EXCEPT !.pc = "done" ]
      ELSE LET config == overlay_load_animation_config(file)
               anim_config == anim_config_of(config, t.text)
               skip == Get(anim_config, "skip_frames", DEFAULT_SKIP)
               frame_delay == Get(anim_config, "frame_delay", DEFAULT_DELAY)
           IN  IF skip = 0
                 THEN [ t EXCEPT !.pc = "done" ]   \* ValueError ends the thread
                 ELSE LET to_play == frames_to_play(TRUCK_ANIMATION, skip)
                      IN  [ t EXCEPT !.pc = "run",
                                     !.plan = [ j \in 1 .. Len(to_play) |->
                                                  to_play[j].id ],
                                     !.delay = frame_delay,
                                     !.cursor = 1,
                                     !.k = 0 ]

\* the thread after it has emitted its next event
after_event(t) ==
    LET evs == Events(t)
        ev == evs[t.k + 1]
        last == (t.k + 1 = Len(evs))
    IN  IF t.kind = "anim"
          THEN [ t EXCEPT !.k = IF last THEN 0 ELSE t.k + 1,
                          !.sleep = ev.sleep,
                          !.sent = IF t.k = 0 THEN Append(@, t.plan[t.cursor])
                                   ELSE @,
                          !.cursor = IF last THEN @ + 1 ELSE @,
                          !.pc = IF last /\ t.cursor = Len(t.plan)
                                   THEN "done" ELSE "run" ]
          ELSE [ t EXCEPT !.k = t.k + 1,
                          !.pc = IF last THEN "done" ELSE "run",
                          !.sleep = ev.sleep ]

\* formatted = format_frame_for_valorant(frame), for every frame of
\* TRUCK_ANIMATION
formatted ==
    [ f \in DOMAIN TRUCK_ANIMATION |->
        format_frame_for_valorant(TRUCK_ANIMATION[f].lines) ]

\* `if formatted:` of play_animation
frame_is_sent(t) == formatted[t.plan[t.cursor] + 1] # << >>

\* pyperclip.copy(...): the text thread t puts on the clipboard
copied(t) ==
    IF t.kind = "anim" THEN Payload("", formatted[t.plan[t.cursor] + 1])
    ELSE Payload(t.text, << >>)

RECURSIVE run_length(_, _)
\* the number of events of evs from the one after k up to the first that is
\* followed by a time.sleep, or up to the last
run_length(evs, k) ==
    IF k + 1 >= Len(evs) \/ evs[k + 1].sleep > 0 THEN 1
    ELSE 1 + run_length(evs, k + 1)

\* the events of one uninterrupted run of thread t, which ends where the
\* thread calls time.sleep or has emitted its payload: a key tap of
\* do_voiceline; of do_type the copy and the press of shift, then one key
\* at a time, then the paste, then the enter; of a frame of play_animation
\* the copy, then one key at a time, then the paste, then the enter
ChunkLen(t) == run_length(Events(t), t.k)

RECURSIVE after_events(_, _)
after_events(t, n) == IF n = 0 THEN t ELSE after_events(after_event(t), n - 1)

RECURSIVE pressed_signals(_, _, _)
\* what the listener, while it runs, emits for the presses among events
\* from .. to of evs
pressed_signals(evs, from, to) ==
    IF from > to \/ ~listening THEN << >>
    ELSE (IF evs[from].act = "press"
            THEN synthesized(on_press(evs[from].key)) ELSE << >>)
         \o pressed_signals(evs, from + 1, to)

\* thread i runs: the timer fires, or the thread emits its next chunk of
\* events; no other thread and no handler reads what a chunk changes
\* except the listener, which sees the keys pressed
ThreadRun(i) ==
    /\ i \in DOMAIN tasks
    /\ tasks[i].pc # "done"
    /\ LET t == tasks[i]
       IN  IF t.kind = "anim" /\ t.pc = "timer"
             THEN /\ tasks' = [ tasks EXCEPT ![i] = play_animation_start(t, config_file) ]
                  /\ UNCHANGED << sigq, clipboard, last_paste >>
             ELSE IF t.kind = "anim" /\ t.k = 0 /\ ~frame_is_sent(t)
               THEN /\ tasks' = [ tasks EXCEPT ![i] =
                                    [ t EXCEPT !.cursor = @ + 1,
                                               !.sleep = 0,
                                               !.pc = IF t.cursor = Len(t.plan)
                                                        THEN "done" ELSE "run" ] ]
                    /\ UNCHANGED << sigq, clipboard, last_paste >>
               ELSE LET run == (t.k + 1) .. (t.k + ChunkLen(t))
                        evs == Events(t)
                    IN  /\ tasks' = [ tasks EXCEPT ![i] = after_events(t, ChunkLen(t)) ]
                        /\ sigq' = sigq \o pressed_signals(evs, t.k + 1,
                                                           t.k + ChunkLen(t))
                        /\ clipboard' = IF \E j \in run : evs[j].act = "copy"
                                          THEN copied(t) ELSE clipboard
                        /\ last_paste' =
                             IF \E j \in run : evs[j].act = "press" /\ evs[j].key = "v"
                               THEN [ own |-> copied(t), got |-> clipboard ]
                               ELSE last_paste
    /\ last_op' = Op("other", 0)
    /\ UNCHANGED << started, nav, hide_timers, listening, config_file,
                    session_dispatches, user_events, pure_vars, player_vars,
                    timer_left, task_left, since >>

\* thread i returns from its function
ThreadExit(i) ==
    /\ i \in DOMAIN tasks
    /\ tasks[i].pc = "done"
    /\ tasks' = Remove(tasks, i)
    /\ last_op' = Op("other", 0)
    /\ UNCHANGED << started, nav, sigq, hide_timers, listening, config_file,
                    session_dispatches, user_events, pure_vars, player_vars, timed_vars >>

(***************************************************************************)
(* The user and the GUI thread.                                            *)
(***************************************************************************)
UserMayAct == user_events < MaxUserEvents

\* main(): overlay.show(), then app.exec()
MainShow ==
    /\ ~started
    /\ started' = TRUE
    /\ visible' = TRUE
    /\ session_dispatches' = 0
    /\ last_op' = Op("other", 0)
    /\ UNCHANGED << current_menu, main_menu_index, selection_pending, options,
                    sigq, hide_timers, tasks, listening, config_file, user_events,
                    pure_vars, player_vars, timed_vars >>

\* the user presses a key; the listener thread, if it has not ended, runs
\* on_press
KeyPress(key) ==
    /\ UserMayAct
    /\ sigq' = IF listening THEN sigq \o on_press(key) ELSE sigq
    /\ listening' = (listening /\ ~on_press_raises(key))
    /\ user_events' = user_events + 1
    /\ last_op' = Op(key, 0)
    /\ UNCHANGED << started, nav, hide_timers, tasks, config_file,
                    session_dispatches, pure_vars, player_vars, timed_vars >>

\* the GUI thread handles the oldest queued signal
Deliver ==
    /\ started
    /\ sigq # << >>
    /\ sigq' = Tail(sigq)
    /\ LET s == Head(sigq)
       IN  CASE s.sig = "toggle" ->
                  toggle_visibility /\ last_op' = Op("toggle", 0)
             [] s.sig = "select" ->
                  select_option(s.n) /\ last_op' = Op("select", s.n)
             [] s.sig = "back" ->
                  handle_back /\ last_op' = Op("back", 0)
    /\ UNCHANGED << started, listening, config_file, user_events, pure_vars, player_vars, timed_vars >>

\* option.mousePressEvent: a click on the option row num shown
Click(num) ==
    /\ started /\ visible /\ UserMayAct
    /\ num \in 1 .. Len(options)
    /\ select_option(num)
    /\ user_events' = user_events + 1
    /\ last_op' = Op("select", num)
    /\ UNCHANGED << started, sigq, listening, config_file, pure_vars, player_vars, timed_vars >>

\* footer.mousePressEvent
FooterClick ==
    /\ started /\ visible /\ UserMayAct
    /\ handle_back
    /\ user_events' = user_events + 1
    /\ last_op' = Op("back", 0)
    /\ UNCHANGED << started, sigq, listening, config_file, pure_vars, player_vars, timed_vars >>

\* the user closes the window that is shown (Alt+F4 while it has the
\* focus): Qt calls closeEvent and, the event being accepted, QWidget.close()
\* hides the window.  The window is a Qt.Tool, for which Qt does not end
\* the application: the timers and the threads go on.
CloseWindow ==
    /\ started /\ visible /\ UserMayAct
    /\ closeEvent
    /\ hide
    /\ user_events' = user_events + 1
    /\ last_op' = Op("close", 0)
    /\ UNCHANGED << started, sigq, config_file, pure_vars, player_vars, timed_vars >>

\* a QTimer.singleShot(d, self.hide) fires
HideTimer(d) ==
    /\ started
    /\ hide_timers[d] > 0
    /\ visible' = FALSE
    /\ hide_timers' = [ hide_timers EXCEPT ![d] = @ - 1 ]
    /\ last_op' = Op("other", 0)
    /\ UNCHANGED << started, current_menu, main_menu_index, selection_pending,
                    options, sigq, tasks, listening, config_file, session_dispatches,
                    user_events, pure_vars, player_vars, timed_vars >>

Next ==
    \/ MainShow
    \/ \E key \in UserKeys : KeyPress(key)
    \/ Deliver
    \/ \E num \in select_digits : Click(num)
    \/ FooterClick
    \/ CloseWindow
    \/ \E d \in HideDelays : HideTimer(d)
    \/ \E i \in DOMAIN tasks : ThreadRun(i)
    \/ \E i \in DOMAIN tasks : ThreadExit(i)

Spec == Init /\ [][Next]_vars

(***************************************************************************)
(* The claims about the menu state machine, checked under Spec.            *)
(***************************************************************************)
rest_of_overlay == << current_menu, main_menu_index, selection_pending, options,
                      hide_timers, tasks >>

\* C1: within one visible session (from a show to the next hide or show) at
\* most one terminal action is started, whatever Select, Back and click
\* events arrive: session_dispatches counts the threads started since the
\* last show.
C1_OneDispatchPerSession == session_dispatches <= 1

\* a Select that arrived at the root after Back, with the lock of the
\* session's terminal action still set, and dispatched nothing
C1_Witness ==
    /\ visible /\ selection_pending /\ session_dispatches = 1
    /\ last_op.op = "select" /\ current_menu = "main"

\* C3: Toggle from Hidden lands on AtRoot (menu main, the main options) with
\* the lock cleared, whatever the previous session left; Toggle from a
\* visible state lands on Hidden.
C3_Toggle ==
    [][ last_op'.op = "toggle" =>
          IF ~visible
            THEN /\ visible'
                 /\ current_menu' = "main"
                 /\ options' = main_options
                 /\ ~selection_pending'
            ELSE ~visible' ]_vars

\* a Toggle has shown the overlay while the hide timer of the previous
\* session's terminal action is still pending
C3_Witness ==
    /\ last_op.op = "toggle" /\ visible /\ current_menu = "main"
    /\ ~selection_pending /\ main_menu_index > 0 /\ PendingTimers > 0

\* C4: Select(n) while Hidden, while the lock is set, or with n beyond the
\* options of the current node changes no navigation state, starts no thread
\* and schedules no hide timer.
C4_SelectIgnored ==
    [][ \A n \in select_digits :
          ( /\ last_op' = Op("select", n)
            /\ (~visible \/ selection_pending \/ n > Len(options)) )
          => UNCHANGED << nav, hide_timers, tasks >> ]_vars

\* a Select was delivered while the overlay was hidden
C4_Witness == started /\ last_op.op = "select" /\ ~visible

\* C5: an accepted Select(n) at the root is navigation only: to the submenu
\* option n names, with origin index n and the lock clear (or no change when
\* it names none); no thread is started and no hide timer scheduled.
C5_SelectAtRoot ==
    [][ \A n \in select_digits :
          ( /\ last_op' = Op("select", n)
            /\ visible /\ ~selection_pending /\ n <= Len(options)
            /\ current_menu = "main" )
          => /\ IF main_options[n] \in submenu_names
                  THEN /\ current_menu' = main_options[n]
                       /\ options' = submenus[main_options[n]]
                       /\ main_menu_index' = n
                       /\ ~selection_pending'
                       /\ visible'
                  ELSE UNCHANGED nav
             /\ UNCHANGED << hide_timers, tasks >> ]_vars

\* the overlay has navigated to Social, where every Select(1..6) is in range
C5_Witness ==
    /\ last_op.op = "select" /\ visible /\ ~selection_pending
    /\ current_menu = "Social" /\ main_menu_index = last_op.n
    /\ main_options[last_op.n] = "Social"

\* the thread a terminal Select(n) in menu m with option label l must start
C6_Started(t, m, n, l) ==
    /\ t.pc = "timer"
    /\ IF m \in { "Combat", "Tactics", "Social", "Strategy" }
         THEN t.kind = "voice" /\ t.sub_num = n
         ELSE IF m = "Animations"
           THEN t.kind = "anim" /\ t.text = l
           ELSE t.kind = "type" /\ t.text = l

\* the hide delay of a terminal Select in menu m, in milliseconds
C6_Delay(m) ==
    IF m \in { "Combat", "Tactics", "Social", "Strategy" } THEN 500 ELSE 50

\* C6: an accepted Select(n) in a submenu sets the lock and starts exactly
\* one thread, of the kind of the submenu (voice wheel with sub-index n,
\* animation of the label, free text of the label), and schedules one hide
\* timer: 500 ms for the voice wheel, 50 ms otherwise.
C6_SelectInSubmenu ==
    [][ \A n \in select_digits :
          ( /\ last_op' = Op("select", n)
            /\ visible /\ ~selection_pending /\ n <= Len(options)
            /\ current_menu # "main" )
          => /\ selection_pending'
             /\ Len(tasks') = Len(tasks) + 1
             /\ SubSeq(tasks', 1, Len(tasks)) = tasks
             /\ C6_Started(tasks'[Len(tasks')], current_menu, n, options[n])
             /\ hide_timers' =
                  [ hide_timers EXCEPT ![C6_Delay(current_menu)] = @ + 1 ]
             /\ UNCHANGED << visible, current_menu, options, main_menu_index >>
      ]_vars

\* a terminal Select in a voice-wheel submenu has just started its thread
C6_Witness ==
    /\ last_op.op = "select" /\ visible /\ selection_pending
    /\ current_menu \in builtin_menus /\ session_dispatches = 1
    /\ tasks # << >> /\ tasks[Len(tasks)].kind = "voice"
    /\ tasks[Len(tasks)].pc = "timer" /\ hide_timers[500] > 0

\* C7 as claimed: Back from a submenu returns to the root and clears the
\* lock, the overlay staying visible.
C7_BackClearsLock ==
    [][ ( last_op'.op = "back" /\ visible /\ current_menu # "main" )
        => /\ current_menu' = "main"
           /\ options' = main_options
           /\ ~selection_pending'
           /\ visible' ]_vars

\* C7 as amended: Back from a submenu returns to the root and leaves the
\* lock as it was (set, after a terminal Select); the overlay stays visible
\* and nothing else changes.
C7_BackKeepsLock ==
    [][ ( last_op'.op = "back" /\ visible /\ current_menu # "main" )
        => /\ current_menu' = "main"
           /\ options' = main_options
           /\ selection_pending' = selection_pending
           /\ visible'
           /\ UNCHANGED << main_menu_index, hide_timers, tasks >> ]_vars

\* Back arrived after a terminal Select and before its hide timer fired
C7_Witness ==
    /\ last_op.op = "back" /\ visible /\ current_menu = "main"
    /\ selection_pending /\ session_dispatches = 1 /\ PendingTimers > 0

\* C8: Back at the root hides the overlay and changes nothing else, which is
\* what Toggle does to a visible overlay; a further Back, the overlay hidden
\* at the root, changes nothing.
C8_BackAtRoot ==
    [][ /\ ( last_op'.op = "back" /\ current_menu = "main" )
           => ( ~visible' /\ UNCHANGED rest_of_overlay )
        /\ ( last_op'.op = "toggle" /\ visible )
           => ( ~visible' /\ UNCHANGED rest_of_overlay ) ]_vars

\* Back has been handled at the root and the overlay is hidden
C8_Witness ==
    /\ started /\ last_op.op = "back" /\ ~visible /\ current_menu = "main"

\* the resolved Truck configuration is stride 5, delay 0.5 s
TruckConfigured == config_file = File(TruckEntry(5, 500))

\* the frames 0, 5, .., 50 and 52, by index
TruckIndices == << 0, 5, 10, 15, 20, 25, 30, 35, 40, 45, 50, 52 >>

\* C10 as claimed: with the Truck configuration (stride 5, delay 0.5 s) a
\* playback of the 53-frame generated animation that has run to its end has
\* dispatched the frames 0, 5, .., 50 and 52, which are 11 dispatch calls.
C10_ElevenDispatches ==
    \A i \in DOMAIN tasks :
        ( TruckConfigured /\ tasks[i].kind = "anim" /\ tasks[i].pc = "done" )
        => /\ Len(TRUCK_ANIMATION) = 53
           /\ tasks[i].sent = TruckIndices
           /\ Len(tasks[i].sent) = 11

\* C10 as amended: the frames dispatched are 0, 5, .., 50 and 52, which are
\* 12 dispatch calls (eleven strided frames and the appended last frame).
C10_TruckPlayback ==
    \A i \in DOMAIN tasks :
        ( TruckConfigured /\ tasks[i].kind = "anim" /\ tasks[i].pc = "done" )
        => /\ Len(TRUCK_ANIMATION) = 53
           /\ tasks[i].sent = TruckIndices
           /\ Len(tasks[i].sent) = 12

\* a Truck playback under that configuration has run to its end
C10_Witness ==
    \E i \in DOMAIN tasks :
        TruckConfigured /\ tasks[i].kind = "anim" /\ tasks[i].pc = "done"

(***************************************************************************)
(* The playback subsequence as a function: SpecPure draws a frame sequence *)
(* and a stride and applies the builder of the overlay or of the player.   *)
(*                                                                         *)
(* A frame of the player is a reference to an object: id is its identity   *)
(* (what `is` compares), kind its type and body its content.  A list that  *)
(* generate_truck_frames made is of kind "truck" and is named by its       *)
(* identity alone, its position in TRUCK_ANIMATION, where its lines are:   *)
(* no code changes a frame list in place.  Another list (json.load,        *)
(* str.split, the [] of add_frame) is of kind "list" and a new object each *)
(* time.  A str is a new object too, except that CPython keeps one object  *)
(* for the empty str and, where json.load makes the str, one for each      *)
(* one-character str below U+0100; the str that toPlainText() makes of the *)
(* text of the editor is a new object each time unless it is empty.        *)
(***************************************************************************)
TruckObject(id) == [ id |-> id, kind |-> "truck", body |-> << >> ]

ListObject(id, lines) == [ id |-> id, kind |-> "list", body |-> lines ]

StrObject(id, text) ==
    [ id |-> IF text = << >> THEN -2
             ELSE IF Len(text) = 1 /\ text[1] < 256 THEN -3 - text[1]
             ELSE id,
      kind |-> "str", body |-> text ]

\* the str QTextEdit.toPlainText() returns
PlainTextObject(id, text) ==
    [ id |-> IF text = << >> THEN -2 ELSE id, kind |-> "str", body |-> text ]

\* isinstance(frame, list)
isinstance_list(frame) == frame.kind # "str"

\* the lines of a frame that is a list
lines_of(frame) ==
    IF frame.kind = "truck" THEN TRUCK_ANIMATION[frame.id + 1].lines
    ELSE frame.body

\* the frame sequences: at each position a list of one line of one letter,
\* or a str of one letter, as load_animation reads them from a file
FrameSequences ==
    UNION { { [ j \in 1 .. n |->
                  IF lists[j] THEN ListObject(j - 1, << << 64 + texts[j] >> >>)
                  ELSE StrObject(j - 1, << 64 + texts[j] >>) ] :
                texts \in [ 1 .. n -> 1 .. MaxTexts ],
                lists \in [ 1 .. n -> BOOLEAN ] } : n \in 0 .. MaxFrames }

\* sprites of up to MaxLines lines, all truck_width wide, over two glyphs
\* that are not the background glyph
SpriteChars == { 65, 66 }

Sprites(truck_width) ==
    UNION { [ 1 .. l -> [ 1 .. truck_width -> SpriteChars ] ] : l \in 1 .. MaxLines }

\* the arguments of the frame generator: the truck's, and small ones
GenerateInputs ==
    { [ fn |-> "generate", sprite |-> TRUCK_SPRITE, truck_width |-> TRUCK_WIDTH,
        screen_width |-> SCREEN_WIDTH ] }
    \cup UNION { [ fn : { "generate" }, sprite : Sprites(s), truck_width : { s },
                   screen_width : 1 .. MaxScreenWidth ] : s \in 1 .. MaxSpriteWidth }

\* the arguments of the wire formatter: the truck's frames, and frames of up
\* to MaxLines lines of equal width over a letter, the space and the
\* no-break space U+00A0
FormatInputs ==
    { [ fn |-> "format", frame_lines |-> TRUCK_ANIMATION[f].lines ] :
        f \in DOMAIN TRUCK_ANIMATION }
    \cup UNION { [ fn : { "format" },
                   frame_lines : [ 1 .. l -> [ 1 .. w -> { 65, SPACE, 160 } ] ] ] :
                 l \in 1 .. MaxLines, w \in 1 .. MaxScreenWidth }

\* the files the two loaders are applied to
LoadInputs ==
    [ fn : { "load" },
      file : ConfigFiles \cup EditedConfigFiles \cup PartialConfigFiles
             \cup { CorruptFile } ]

\* the configuration as AnimationPlayer.__init__ resolves it: config,
\* anim_config, frame_delay, skip_frames (before the spin boxes are set)
player_resolve(file) ==
    IF load_raises(file)
      THEN [ raised |-> TRUE, skip_frames |-> 0, frame_delay |-> 0 ]
      ELSE LET config == load_animation_config(file)
               anim_config == anim_config_of(config, "Truck")
           IN  [ raised |-> FALSE,
                 skip_frames |-> Get(anim_config, "skip_frames", DEFAULT_SKIP),
                 frame_delay |-> Get(anim_config, "frame_delay", DEFAULT_DELAY) ]

\* the configuration as the overlay's play_animation resolves it for Truck
overlay_resolve(file) ==
    IF load_raises(file)
      THEN [ raised |-> TRUE, skip_frames |-> 0, frame_delay |-> 0 ]
      ELSE LET config == overlay_load_animation_config(file)
               anim_config == anim_config_of(config, "Truck")
           IN  [ raised |-> FALSE,
                 skip_frames |-> Get(anim_config, "skip_frames", DEFAULT_SKIP),
                 frame_delay |-> Get(anim_config, "frame_delay", DEFAULT_DELAY) ]

InitPure ==
    /\ InitOverlay
    /\ config_file = NoFile
    /\ \/ fn_in \in LoadInputs
       \/ fn_in \in [ fn : { "frames_to_play" }, frames : FrameSequences,
                      skip : 1 .. MaxStride ]
       \/ fn_in \in GenerateInputs
       \/ fn_in \in FormatInputs
    /\ fn_out = [ fn |-> "none", out |-> << >> ]
    /\ PlayerIdle

\* generate_truck_frames runs
Generate ==
    /\ fn_in.fn = "generate" /\ fn_out.fn = "none"
    /\ fn_out' = [ fn |-> "generate",
                   out |-> generate_frames(fn_in.sprite, fn_in.truck_width,
                                           fn_in.screen_width) ]
    /\ UNCHANGED << overlay_vars, fn_in, player_vars >>

\* format_frame_for_valorant runs
Format ==
    /\ fn_in.fn = "format" /\ fn_out.fn = "none"
    /\ fn_out' = [ fn |-> "format",
                   out |-> format_frame_for_valorant(fn_in.frame_lines) ]
    /\ UNCHANGED << overlay_vars, fn_in, player_vars >>

\* the overlay's play_animation builds its subsequence; its frames are
\* lists, as those of TRUCK_ANIMATION are
BuildOverlay ==
    /\ fn_in.fn = "frames_to_play" /\ fn_out.fn = "none"
    /\ \A j \in DOMAIN fn_in.frames : isinstance_list(fn_in.frames[j])
    /\ fn_out' = [ fn |-> "overlay", out |-> frames_to_play(fn_in.frames, fn_in.skip) ]
    /\ UNCHANGED << overlay_vars, fn_in, player_vars >>

\* the player's play_thread builds its subsequence
BuildPlayer ==
    /\ fn_in.fn = "frames_to_play" /\ fn_out.fn = "none"
    /\ fn_out' = [ fn |-> "player",
                   out |-> play_thread_frames_to_play(fn_in.frames, fn_in.skip) ]
    /\ UNCHANGED << overlay_vars, fn_in, player_vars >>

\* the player starts and resolves its configuration
LoadPlayer ==
    /\ fn_in.fn = "load" /\ fn_out.fn = "none"
    /\ fn_out' = [ fn |-> "player_load", out |-> player_resolve(fn_in.file) ]
    /\ UNCHANGED << overlay_vars, fn_in, player_vars >>

\* the overlay's animation thread resolves its configuration
LoadOverlay ==
    /\ fn_in.fn = "load" /\ fn_out.fn = "none"
    /\ fn_out' = [ fn |-> "overlay_load", out |-> overlay_resolve(fn_in.file) ]
    /\ UNCHANGED << overlay_vars, fn_in, player_vars >>

NextPure ==
    \/ BuildOverlay
    \/ BuildPlayer
    \/ Generate
    \/ Format
    \/ LoadPlayer
    \/ LoadOverlay

SpecPure == InitPure /\ [][NextPure]_vars

\* C9: for a stride k >= 1 and n >= 1 frames the playback subsequence is the
\* frames at indices 0, k, 2k, .. in ascending order, followed by the frame
\* at index n-1 when that index is not a multiple of k; the index n-1 is the
\* final one and occurs exactly once, whatever the frames' texts.
C9_Subsequence ==
    ( fn_out.fn \in { "overlay", "player" } /\ fn_in.frames # << >> )
    => LET frames == fn_in.frames
           n == Len(frames)
           k == fn_in.skip
           out == fn_out.out
           m == (n - 1) \div k
           indices == [ j \in 1 .. m + 1 + (IF m * k = n - 1 THEN 0 ELSE 1) |->
                          IF j <= m + 1 THEN (j - 1) * k ELSE n - 1 ]
       IN  /\ Len(out) = Len(indices)
           /\ \A j \in DOMAIN indices : out[j] = frames[indices[j] + 1]
           /\ out[Len(out)] = frames[n]
           /\ Cardinality({ j \in DOMAIN indices : indices[j] = n - 1 }) = 1

(***************************************************************************)
(* The animation player.  Its GUI thread runs the handlers of the buttons, *)
(* the frame list, the editor and the spin boxes, start_playback (the      *)
(* 3000 ms timer) and on_animation_complete; every start_playback starts   *)
(* one play_thread.                                                        *)
(* A play_thread is a record: pc is its position in play_thread, plan the  *)
(* frames of frames_to_play, i the loop index (from 0), k the events of    *)
(* type_line_in_chat it has emitted for the frame under way, sent the      *)
(* identities of the frames it has typed.  The thread reads                *)
(* self.is_playing at the top of the loop and again before its sleep; at   *)
(* pc "frame" it has passed the test and its injection call is under way.  *)
(* History kept in the record: late counts the frames the thread finished  *)
(* typing while is_playing was False since the flag was last set, emitted  *)
(* the animation_complete signals it has emitted, stride the value of     *)
(* self.skip_frames it sliced the frames with, stale that Play was clicked *)
(* again after the thread was started.  A thread that ended is at pc       *)
(* "returned" or, after an uncaught exception, "raised".                   *)
(* A text is the sequence of its characters.  The editor holds its text,   *)
(* or, while it shows a generated frame, the position of that frame.       *)
(* Delays are in milliseconds and multiples of the 10 ms the delay box     *)
(* displays.                                                               *)
(***************************************************************************)
PLAY_START == 3000

SKIP_SPIN_MIN == 1
SKIP_SPIN_MAX == 10
SKIP_SPIN_INITIAL == 1
DELAY_SPIN_MIN == 100
DELAY_SPIN_MAX == 5000
DELAY_SPIN_INITIAL == 500

\* '\n'
NEWLINE == 10

\* the file save_animation_config writes and load_animation_config reads
CONFIG_FILE == "animation_config.json"

\* the state of the overlay process, which no step of the player changes;
\* the file and the clipboard belong to both
overlay_state == << started, visible, current_menu, main_menu_index,
                    selection_pending, options, sigq, listening, hide_timers,
                    tasks, session_dispatches, last_op, user_events,
                    timer_left, task_left, since >>

settings == << player_skip_frames, player_frame_delay, player_config >>

editing == << player_frames, current_row, frame_editor, in_handler >>

clamp(v, lo, hi) == IF v < lo THEN lo ELSE IF v > hi THEN hi ELSE v

\* what the spin boxes show: the attribute clamped to the range (that is
\* what __init__, load_animation and every valueChanged leave)
skip_spin_value == clamp(player_skip_frames, SKIP_SPIN_MIN, SKIP_SPIN_MAX)
delay_spin_value == clamp(player_frame_delay, DELAY_SPIN_MIN, DELAY_SPIN_MAX)

\* QSpinBox.setValue on a spin box showing `shown` whose valueChanged sets
\* the attribute: the value is clamped to the range, and the attribute is
\* set only when the shown value changes
spin_setValue(attr, shown, lo, hi, v) ==
    LET clamped == IF v < lo THEN lo ELSE IF v > hi THEN hi ELSE v
    IN  IF clamped # shown THEN clamped ELSE attr

RECURSIVE split(_)
\* text.split('\n')
split(text) ==
    IF \E j \in DOMAIN text : text[j] = NEWLINE
      THEN LET j == CHOOSE h \in DOMAIN text :
                      text[h] = NEWLINE /\ \A g \in 1 .. h - 1 : text[g] # NEWLINE
           IN  << SubSeq(text, 1, j - 1) >>
               \o split(SubSeq(text, j + 1, Len(text)))
      ELSE << text >>

RECURSIVE join(_)
\* '\n'.join(lines)
join(lines) ==
    IF lines = << >> THEN << >>
    ELSE IF Len(lines) = 1 THEN lines[1]
    ELSE lines[1] \o << NEWLINE >> \o join(Tail(lines))

RECURSIVE strip(_)
\* str.strip()
strip(s) ==
    IF s # << >> /\ s[1] \in WHITESPACE THEN strip(Tail(s)) ELSE rstrip(s)

RECURSIVE spaced(_)
\* result = ""; for j, char in enumerate(frame): result += char;
\* if (j + 1) % 26 == 0: result += " "
spaced(frame) ==
    IF Len(frame) < 26 THEN frame
    ELSE SubSeq(frame, 1, 26) \o << SPACE >>
         \o spaced(SubSeq(frame, 27, Len(frame)))

\* the branch of play_thread for the frame: whether type_line_in_chat is
\* called (`if formatted:` for a list, `if frame.strip():` for a str)
is_typed(frame) ==
    IF isinstance_list(frame)
      THEN format_frame_for_valorant(lines_of(frame)) # << >>
      ELSE strip(frame.body) # << >>

\* the line it is called with
line_of(frame) ==
    IF isinstance_list(frame) THEN format_frame_for_valorant(lines_of(frame))
    ELSE rstrip(spaced(frame.body))

\* an identity that no frame of self.frames and of a thread has
fresh_id ==
    LET used == { Len(TRUCK_ANIMATION) - 1 }
                \cup { player_frames[j].id : j \in DOMAIN player_frames }
                \cup UNION { { threads[i].plan[j].id : j \in DOMAIN threads[i].plan } :
                             i \in DOMAIN threads }
    IN  1 + CHOOSE x \in used : \A y \in used : y <= x

\* text.split('\n') if '\n' in text else text
frame_of_text(text) ==
    IF \E j \in DOMAIN text : text[j] = NEWLINE
      THEN ListObject(fresh_id, split(text))
      ELSE PlainTextObject(fresh_id, text)

\* self.frame_editor.toPlainText()
toPlainText ==
    IF frame_editor.of >= 0 THEN join(TRUCK_ANIMATION[frame_editor.of + 1].lines)
    ELSE frame_editor.text

\* on_frame_selected(row) when self.frames is frames: what the editor holds
\* afterwards (its signals are blocked, on_editor_changed does not run)
on_frame_selected(frames, row) ==
    IF 0 <= row /\ row < Len(frames)
      THEN LET frame == frames[row + 1]
           IN  IF frame.kind = "truck" THEN [ of |-> frame.id, text |-> << >> ]
               ELSE IF isinstance_list(frame)
                 THEN [ of |-> -1, text |-> join(frame.body) ]
               ELSE [ of |-> -1, text |-> frame.body ]
      ELSE frame_editor

\* on_editor_changed when self.frames is frames, the current row is row and
\* the editor holds text: self.frames afterwards
on_editor_changed(frames, row, text) ==
    IF 0 <= row /\ row < Len(frames)
      THEN [ frames EXCEPT ![row + 1] = frame_of_text(text) ]
      ELSE frames

\* frames[a], frames[b] = frames[b], frames[a] up to its first store,
\* frames[a] = (the frame at b), the indices as Python counts them (from 0,
\* a negative one from the end); the frame that was at a is still to be
\* stored at b
first_store(frames, a, b) ==
    LET at(i) == IF i < 0 THEN Len(frames) + i + 1 ELSE i + 1
    IN  [ frames EXCEPT ![at(a)] = frames[at(b)] ]

\* the objects json.load makes of the JSON values of "frames", a JSON
\* string being given as [ str |-> text ], an array of strings as
\* [ list |-> lines ]
loaded(values) ==
    [ j \in DOMAIN values |->
        IF "str" \in DOMAIN values[j]
          THEN StrObject(fresh_id + j - 1, values[j].str)
          ELSE ListObject(fresh_id + j - 1, values[j].list) ]

\* the files the user loads: {"frames": ["a", "a"]},
\* {"frames": [["ab"]], "delay": 7.0}, {} and
\* {"frames": ["AA..A" (27 characters), " "], "delay": 0.2}
AnimationFiles ==
    { [ frames |-> << [ str |-> << 97 >> ], [ str |-> << 97 >> ] >> ],
      [ frames |-> << [ list |-> << << 97, 98 >> >> ] >>, delay |-> 7000 ],
      << >>,
      [ frames |-> << [ str |-> [ j \in 1 .. 27 |-> 65 ] ],
                      [ str |-> << SPACE >> ] >>,
        delay |-> 200 ] }

\* the texts the user types into the editor: "a" and "a\nb"
EditorTexts == { << 97 >>, << 97, NEWLINE, 98 >> }

\* the values the user sets the spin boxes to
SkipChoices == { 2, 7 }
DelayChoices == { DELAY_SPIN_MIN, 200, DELAY_SPIN_MAX }

\* the files AnimationPlayer.__init__ finds: a short animation with a second
\* entry, a stride of 0, a negative stride, a document without animations
PlayerConfigFiles ==
    { File([ animations |-> [ Truck |-> [ skip_frames |-> 26, frame_delay |-> 500 ],
                              Car |-> [ skip_frames |-> 2, frame_delay |-> 200 ] ] ]),
      File(TruckEntry(0, 500)),
      File(TruckEntry(-26, 500)),
      File(<< >>) }

\* AnimationPlayer.__init__, with init_ui and load_default_animation
InitPlayer ==
    LET config == load_animation_config(config_file)
        anim_config == anim_config_of(config, "Truck")
        delay == Get(anim_config, "frame_delay", DEFAULT_DELAY)
        skip == Get(anim_config, "skip_frames", DEFAULT_SKIP)
    IN  /\ is_playing = FALSE
        /\ player_frames = [ j \in DOMAIN TRUCK_ANIMATION |-> TruckObject(j - 1) ]
        /\ current_row = 0
        /\ frame_editor = [ of |-> 0, text |-> << >> ]
        /\ in_handler = NoHandler
        /\ player_frame_delay = spin_setValue(delay, DELAY_SPIN_INITIAL,
                                              DELAY_SPIN_MIN, DELAY_SPIN_MAX, delay)
        /\ player_skip_frames = spin_setValue(skip, SKIP_SPIN_INITIAL,
                                              SKIP_SPIN_MIN, SKIP_SPIN_MAX, skip)
        /\ player_config = config
        /\ play_enabled = TRUE
        /\ stop_enabled = FALSE
        /\ start_timers = 0
        /\ threads = << >>
        /\ completes = 0
        /\ player_events = 0

play_animation ==
    IF player_frames = << >>
      THEN UNCHANGED << is_playing, play_enabled, stop_enabled, start_timers >>
      ELSE /\ is_playing' = TRUE
           /\ play_enabled' = FALSE
           /\ stop_enabled' = TRUE
           /\ start_timers' = start_timers + 1

stop_animation ==
    /\ is_playing' = FALSE
    /\ play_enabled' = TRUE
    /\ stop_enabled' = FALSE

on_animation_complete ==
    /\ is_playing' = FALSE
    /\ play_enabled' = TRUE
    /\ stop_enabled' = FALSE

\* threading.Thread(target=play_thread, daemon=True).start()
start_playback ==
    threads' = Append(threads, [ pc |-> "begin", plan |-> << >>, i |-> 0,
                                 k |-> 0, sent |-> << >>, late |-> 0,
                                 emitted |-> 0, stride |-> 0, stale |-> FALSE ])

\* the thread is building frames_to_play
Building(t) == t.pc \in { "begin", "last", "is_not", "append" }

\* the thread is inside the for loop of play_thread
InLoop(t) == t.pc \in { "check", "frame", "pause", "sleep" }

\* the loop index moves on; after the last frame the loop ends
next_frame(t) ==
    IF t.i + 1 < Len(t.plan)
      THEN [ t EXCEPT !.i = @ + 1, !.pc = "check" ]
      ELSE [ t EXCEPT !.pc = "complete" ]

PlayerMayAct == player_events < MaxPlayerEvents

\* the GUI thread is between two events
GuiIdle == in_handler.pc = "none"

\* the user clicks or types in the window of the player: one handler runs
UserStep ==
    /\ PlayerMayAct /\ GuiIdle
    /\ player_events' = player_events + 1
    /\ UNCHANGED << overlay_state, pure_vars, clipboard, last_paste >>

\* the user clicks Play (an enabled button only)
PlayClick ==
    /\ UserStep /\ play_enabled
    /\ play_animation
    /\ threads' = [ i \in DOMAIN threads |->
                      [ threads[i] EXCEPT !.late = IF is_playing' THEN 0 ELSE @,
                                          !.stale = is_playing' \/ @ ] ]
    /\ UNCHANGED << settings, editing, completes, config_file >>

\* the user clicks Stop (an enabled button only)
StopClick ==
    /\ UserStep /\ stop_enabled
    /\ stop_animation
    /\ UNCHANGED << settings, editing, start_timers, threads, completes,
                    config_file >>

\* the handlers of the frame list and of the editor leave the rest alone
editing_only ==
    UNCHANGED << settings, is_playing, play_enabled, stop_enabled, start_timers,
                 threads, completes, config_file >>

\* Add Frame up to self.frames.append([]), after which a play_thread may
\* run before the handler goes on
add_frame ==
    /\ UserStep
    /\ player_frames' = Append(player_frames, ListObject(fresh_id, << >>))
    /\ in_handler' = [ NoHandler EXCEPT !.pc = "add_frame" ]
    /\ UNCHANGED << current_row, frame_editor >>
    /\ editing_only

\* the rest of add_frame: the [] appended becomes the current frame;
\* frame_editor.clear() then runs on_editor_changed, which stores the text
\* '' in its place
add_frame_clear ==
    /\ in_handler.pc = "add_frame"
    /\ LET row == Len(player_frames) - 1
       IN  /\ player_frames' = on_editor_changed(player_frames, row, << >>)
           /\ current_row' = row
           /\ frame_editor' = [ of |-> -1, text |-> << >> ]
    /\ in_handler' = NoHandler
    /\ editing_only
    /\ UNCHANGED << player_events, overlay_state, pure_vars, clipboard,
                    last_paste >>

\* Remove: self.frames.pop(row), then takeItem(row), in which the list makes
\* the next row current, or the row before when the last is taken, and
\* reports it to on_frame_selected by its number of before the removal
remove_frame ==
    /\ UserStep
    /\ LET row == current_row
           popped == Remove(player_frames, row + 1)
           last == (row = Len(player_frames) - 1)
       IN  IF row >= 0
             THEN /\ player_frames' = popped
                  /\ current_row' = IF last THEN row - 1 ELSE row
                  /\ frame_editor' = on_frame_selected(popped,
                                        IF last THEN row - 1 ELSE row + 1)
                  /\ UNCHANGED in_handler
             ELSE UNCHANGED editing
    /\ editing_only

\* Move Up, up to the first of the two stores of
\* self.frames[row], self.frames[row-1] = self.frames[row-1], self.frames[row]
\* between which the interpreter may let a play_thread run
move_frame_up ==
    /\ UserStep
    /\ LET row == current_row
       IN  IF row > 0
             THEN /\ player_frames' = first_store(player_frames, row, row - 1)
                  /\ in_handler' = [ pc |-> "swap", row |-> row - 1,
                                     held |-> player_frames[row + 1] ]
                  /\ UNCHANGED << current_row, frame_editor >>
             ELSE UNCHANGED editing
    /\ editing_only

\* Move Down, up to the first of its two stores
move_frame_down ==
    /\ UserStep
    /\ LET row == current_row
       IN  IF row < Len(player_frames) - 1
             THEN /\ player_frames' = first_store(player_frames, row, row + 1)
                  /\ in_handler' =
                       [ pc |-> "swap", row |-> row + 1,
                         held |-> IF row < 0
                                    THEN player_frames[Len(player_frames) + row + 1]
                                    ELSE player_frames[row + 1] ]
                  /\ UNCHANGED << current_row, frame_editor >>
             ELSE UNCHANGED editing
    /\ editing_only

\* the rest of Move Up and of Move Down: the second store, then
\* setCurrentRow, which runs on_frame_selected
second_store ==
    /\ in_handler.pc = "swap"
    /\ LET frames == [ player_frames EXCEPT ![in_handler.row + 1] =
                                              in_handler.held ]
       IN  /\ player_frames' = frames
           /\ current_row' = in_handler.row
           /\ frame_editor' = on_frame_selected(frames, in_handler.row)
    /\ in_handler' = NoHandler
    /\ editing_only
    /\ UNCHANGED << player_events, overlay_state, pure_vars, clipboard,
                    last_paste >>

\* the user clicks another row of the frame list: currentRowChanged runs
\* on_frame_selected
SelectRow(row) ==
    /\ UserStep
    /\ 0 <= row /\ row < Len(player_frames) /\ row # current_row
    /\ current_row' = row
    /\ frame_editor' = on_frame_selected(player_frames, row)
    /\ UNCHANGED << player_frames, in_handler >>
    /\ editing_only

\* the user changes the text of the editor to text: textChanged runs
\* on_editor_changed
EditText(text) ==
    /\ UserStep
    /\ text # toPlainText
    /\ frame_editor' = [ of |-> -1, text |-> text ]
    /\ player_frames' = on_editor_changed(player_frames, current_row, text)
    /\ UNCHANGED << current_row, in_handler >>
    /\ editing_only

\* Update Frame
update_current_frame ==
    /\ UserStep
    /\ player_frames' = on_editor_changed(player_frames, current_row, toPlainText)
    /\ UNCHANGED << current_row, frame_editor, in_handler >>
    /\ editing_only

\* Load Animation, the user choosing a file that holds the document data:
\* the frames and the delay replace those in memory, the delay box is set,
\* the list is filled again and its first row selected
load_animation(data) ==
    /\ UserStep
    /\ LET frames == loaded(Get(data, "frames", << >>))
           delay == Get(data, "delay", DELAY_SPIN_INITIAL)
           row == IF frames # << >> THEN 0 ELSE -1
       IN  /\ player_frames' = frames
           /\ player_frame_delay' = spin_setValue(delay, delay_spin_value,
                                                  DELAY_SPIN_MIN, DELAY_SPIN_MAX,
                                                  delay)
           /\ current_row' = row
           /\ frame_editor' = on_frame_selected(frames, row)
    /\ UNCHANGED << player_skip_frames, player_config, is_playing, play_enabled,
                    stop_enabled, start_timers, threads, completes, config_file,
                    in_handler >>

\* Save Animation, the user naming the file: json.dump of the frames and the
\* delay replaces what the file held.  The document holds the lines or the
\* text of every frame, without its identity; a generated frame is named by
\* its position.
save_animation(filename) ==
    /\ UserStep
    /\ config_file' =
         IF filename = CONFIG_FILE
           THEN File([ frames |-> [ j \in DOMAIN player_frames |->
                                      [ player_frames[j] EXCEPT !.id =
                                          IF player_frames[j].kind = "truck"
                                            THEN @ ELSE 0 ] ],
                       delay |-> player_frame_delay ])
           ELSE config_file
    /\ UNCHANGED << settings, editing, is_playing, play_enabled, stop_enabled,
                    start_timers, threads, completes >>

\* json.dump(config, f): the text of the file names every object and every
\* number of the document by its path of keys
json_dump(doc) ==
    [ objects |-> { << >> } \cup { << a >> : a \in DOMAIN doc }
                  \cup UNION { { << a, b >> : b \in DOMAIN doc[a] } :
                               a \in DOMAIN doc },
      numbers |-> UNION { UNION { { << a, b, c, doc[a][b][c] >> :
                                    c \in DOMAIN doc[a][b] } :
                                  b \in DOMAIN doc[a] } :
                          a \in DOMAIN doc } ]

\* json.load(f): the document built from the text
json_load(text) ==
    [ a \in { p[1] : p \in { q \in text.objects : Len(q) = 1 } } |->
        [ b \in { p[2] : p \in { q \in text.objects : Len(q) = 2 /\ q[1] = a } } |->
            [ c \in { p[3] : p \in { q \in text.numbers : q[1] = a /\ q[2] = b } } |->
                (CHOOSE q \in text.numbers : q[1] = a /\ q[2] = b /\ q[3] = c)[4] ] ] ]

\* save_animation_config: the file is rewritten with the whole document
save_animation_config(config) == File(json_load(json_dump(config)))

\* the mutant of save_config: the animations object is replaced, not updated
save_config_replaces_animations ==
    LET entry == [ skip_frames |-> player_skip_frames,
                   frame_delay |-> player_frame_delay ]
        saved == [ k \in DOMAIN player_config \cup { "animations" } |->
                     IF k = "animations" THEN [ Truck |-> entry ]
                     ELSE player_config[k] ]
    IN  /\ player_config' = saved
        /\ config_file' = save_animation_config(saved)

\* save_config: self.config["animations"][self.current_animation] = {..};
\* save_animation_config(self.config).  current_animation is always "Truck".
save_config ==
    LET with_animations ==
            IF "animations" \in DOMAIN player_config THEN player_config
            ELSE [ k \in DOMAIN player_config \cup { "animations" } |->
                     IF k = "animations" THEN << >> ELSE player_config[k] ]
        animations == with_animations["animations"]
        entry == [ skip_frames |-> player_skip_frames,
                   frame_delay |-> player_frame_delay ]
        saved == [ k \in DOMAIN with_animations |->
                     IF k = "animations"
                       THEN [ n \in DOMAIN animations \cup { "Truck" } |->
                                IF n = "Truck" THEN entry ELSE animations[n] ]
                       ELSE with_animations[k] ]
    IN  /\ player_config' = saved
        /\ config_file' = save_animation_config(saved)

\* the handlers of the settings leave the frames and the playback alone
settings_only ==
    UNCHANGED << editing, is_playing, play_enabled, stop_enabled, start_timers,
                 threads, completes >>

\* the user changes the skip spin box: valueChanged sets skip_frames
SetSkip(v) ==
    /\ UserStep
    /\ v \in SKIP_SPIN_MIN .. SKIP_SPIN_MAX /\ v # skip_spin_value
    /\ player_skip_frames' = v
    /\ UNCHANGED << player_frame_delay, player_config, config_file >>
    /\ settings_only

\* the user changes the delay spin box: valueChanged sets frame_delay
SetDelay(v) ==
    /\ UserStep
    /\ v \in DELAY_SPIN_MIN .. DELAY_SPIN_MAX /\ v % 10 = 0
    /\ v # delay_spin_value
    /\ player_frame_delay' = v
    /\ UNCHANGED << player_skip_frames, player_config, config_file >>
    /\ settings_only

\* the user clicks Save Settings
SaveConfig ==
    /\ UserStep
    /\ save_config
    /\ UNCHANGED << player_skip_frames, player_frame_delay >>
    /\ settings_only

\* a QTimer.singleShot(3000, self.start_playback) fires
StartPlayback ==
    /\ start_timers > 0 /\ GuiIdle
    /\ start_timers' = start_timers - 1
    /\ start_playback
    /\ UNCHANGED << is_playing, settings, editing, play_enabled, stop_enabled,
                    completes, player_events, overlay_vars, pure_vars >>

\* the GUI thread handles a queued animation_complete signal
CompleteDeliver ==
    /\ completes > 0 /\ GuiIdle
    /\ completes' = completes - 1
    /\ on_animation_complete
    /\ UNCHANGED << settings, editing, start_timers, threads, player_events,
                    overlay_vars, pure_vars >>

\* what a step of a play_thread leaves alone
thread_unchanged ==
    UNCHANGED << is_playing, settings, editing, play_enabled, stop_enabled,
                 start_timers, player_events, overlay_state, config_file,
                 pure_vars >>

\* the thread goes from its last-frame test into the for loop, which an
\* empty frames_to_play ends at once
enter_loop(t) ==
    [ t EXCEPT !.pc = IF t.plan = << >> THEN "complete" ELSE "check" ]

\* frames_to_play = list(self.frames[::self.skip_frames]); frames[::0]
\* raises ValueError, which ends the thread before it emits anything.
\* play_thread reads self.frames here and three times more, without a lock:
\* the GUI thread may change it between any two of the reads.
PlayThreadBegin(i) ==
    /\ i \in DOMAIN threads /\ threads[i].pc = "begin"
    /\ threads' = [ threads EXCEPT ![i] =
           IF player_skip_frames = 0
             THEN [ @ EXCEPT !.pc = "raised", !.stride = player_skip_frames ]
             ELSE [ @ EXCEPT !.plan = slice_frames(player_frames,
                                                   player_skip_frames),
                             !.stride = player_skip_frames,
                             !.pc = "last" ] ]
    /\ UNCHANGED << completes, clipboard, last_paste >>
    /\ thread_unchanged

\* `if self.frames and frames_to_play[-1] ..`: the test of self.frames, and
\* frames_to_play[-1], which raises IndexError when nothing was sliced
PlayThreadLast(i) ==
    /\ i \in DOMAIN threads /\ threads[i].pc = "last"
    /\ LET t == threads[i]
       IN  threads' = [ threads EXCEPT ![i] =
               IF player_frames = << >> THEN enter_loop(t)
               ELSE IF t.plan = << >> THEN [ t EXCEPT !.pc = "raised" ]
               ELSE [ t EXCEPT !.pc = "is_not" ] ]
    /\ UNCHANGED << completes, clipboard, last_paste >>
    /\ thread_unchanged

\* `.. is not self.frames[-1]`, which raises IndexError when self.frames
\* is empty by now
PlayThreadIsNot(i) ==
    /\ i \in DOMAIN threads /\ threads[i].pc = "is_not"
    /\ LET t == threads[i]
       IN  threads' = [ threads EXCEPT ![i] =
               IF player_frames = << >> THEN [ t EXCEPT !.pc = "raised" ]
               ELSE IF t.plan[Len(t.plan)].id # player_frames[Len(player_frames)].id
                 THEN [ t EXCEPT !.pc = "append" ]
               ELSE enter_loop(t) ]
    /\ UNCHANGED << completes, clipboard, last_paste >>
    /\ thread_unchanged

\* frames_to_play.append(self.frames[-1])
PlayThreadAppend(i) ==
    /\ i \in DOMAIN threads /\ threads[i].pc = "append"
    /\ LET t == threads[i]
       IN  threads' = [ threads EXCEPT ![i] =
               IF player_frames = << >> THEN [ t EXCEPT !.pc = "raised" ]
               ELSE enter_loop([ t EXCEPT !.plan =
                                   Append(@, player_frames[Len(player_frames)]) ]) ]
    /\ UNCHANGED << completes, clipboard, last_paste >>
    /\ thread_unchanged

\* the mutant of PlayThreadCheck: the loop does not test the flag
PlayThreadCheck_ignores_flag(i) ==
    /\ i \in DOMAIN threads /\ threads[i].pc = "check"
    /\ threads' = [ threads EXCEPT ![i].pc = "frame" ]
    /\ UNCHANGED << completes, clipboard, last_paste >>
    /\ thread_unchanged

\* if not self.is_playing: break
PlayThreadCheck(i) ==
    /\ i \in DOMAIN threads /\ threads[i].pc = "check"
    /\ threads' = [ threads EXCEPT ![i].pc =
                      IF is_playing THEN "frame" ELSE "complete" ]
    /\ UNCHANGED << completes, clipboard, last_paste >>
    /\ thread_unchanged

\* the body of the loop up to frame_played.emit (whose handler sets a
\* label): a frame that formats or strips to nothing is passed over; of
\* another, type_line_in_chat emits its next events up to its next
\* time.sleep: the copy, then one key at a time, then the paste, then the
\* enter
PlayThreadFrame(i) ==
    /\ i \in DOMAIN threads /\ threads[i].pc = "frame"
    /\ LET t == threads[i]
           frame == t.plan[t.i + 1]
           n == run_length(type_line_in_chat, t.k)
           run == (t.k + 1) .. (t.k + n)
           done == (t.k + n = Len(type_line_in_chat))
       IN  IF ~is_typed(frame)
             THEN /\ threads' = [ threads EXCEPT ![i].pc = "pause" ]
                  /\ UNCHANGED << clipboard, last_paste >>
             ELSE /\ threads' = [ threads EXCEPT ![i] =
                      [ t EXCEPT !.k = IF done THEN 0 ELSE t.k + n,
                                 !.pc = IF done THEN "pause" ELSE "frame",
                                 !.sent = IF done THEN Append(@, frame.id) ELSE @,
                                 !.late = IF done /\ ~is_playing
                                            THEN @ + 1 ELSE @ ] ]
                  /\ clipboard' =
                       IF \E j \in run : type_line_in_chat[j].act = "copy"
                         THEN Payload("", line_of(frame)) ELSE clipboard
                  /\ last_paste' =
                       IF \E j \in run : /\ type_line_in_chat[j].act = "press"
                                         /\ type_line_in_chat[j].key = "v"
                         THEN [ own |-> Payload("", line_of(frame)),
                                got |-> clipboard ]
                         ELSE last_paste
    /\ completes' = completes
    /\ thread_unchanged

\* if i < len(frames_to_play) - 1 and self.is_playing: time.sleep(...)
PlayThreadPause(i) ==
    /\ i \in DOMAIN threads /\ threads[i].pc = "pause"
    /\ LET t == threads[i]
       IN  threads' = [ threads EXCEPT ![i] =
                          IF t.i < Len(t.plan) - 1 /\ is_playing
                            THEN [ t EXCEPT !.pc = "sleep" ]
                            ELSE next_frame(t) ]
    /\ UNCHANGED << completes, clipboard, last_paste >>
    /\ thread_unchanged

\* time.sleep(self.frame_delay) returns
PlayThreadWake(i) ==
    /\ i \in DOMAIN threads /\ threads[i].pc = "sleep"
    /\ threads' = [ threads EXCEPT ![i] = next_frame(@) ]
    /\ UNCHANGED << completes, clipboard, last_paste >>
    /\ thread_unchanged

\* self.signals.animation_complete.emit(), and play_thread returns
PlayThreadComplete(i) ==
    /\ i \in DOMAIN threads /\ threads[i].pc = "complete"
    /\ threads' = [ threads EXCEPT ![i] =
                      [ @ EXCEPT !.pc = "returned", !.emitted = @ + 1 ] ]
    /\ completes' = completes + 1
    /\ UNCHANGED << clipboard, last_paste >>
    /\ thread_unchanged

\* the thread whose function returned or raised is gone
PlayThreadExit(i) ==
    /\ i \in DOMAIN threads /\ threads[i].pc \in { "returned", "raised" }
    /\ threads' = Remove(threads, i)
    /\ UNCHANGED << completes, clipboard, last_paste >>
    /\ thread_unchanged

InitPlayerSpec ==
    /\ InitOverlay
    /\ config_file \in PlayerConfigFiles
    /\ PureIdle
    /\ InitPlayer

NextPlayer ==
    \/ PlayClick
    \/ StopClick
    \/ add_frame
    \/ add_frame_clear
    \/ remove_frame
    \/ move_frame_up
    \/ move_frame_down
    \/ second_store
    \/ \E row \in { 0, Len(player_frames) - 1 } : SelectRow(row)
    \/ \E text \in EditorTexts : EditText(text)
    \/ update_current_frame
    \/ \E data \in AnimationFiles : load_animation(data)
    \/ \E filename \in { CONFIG_FILE, "animation.json" } : save_animation(filename)
    \/ \E v \in SkipChoices : SetSkip(v)
    \/ \E v \in DelayChoices : SetDelay(v)
    \/ SaveConfig
    \/ StartPlayback
    \/ CompleteDeliver
    \/ \E i \in DOMAIN threads : PlayThreadBegin(i)
    \/ \E i \in DOMAIN threads : PlayThreadLast(i)
    \/ \E i \in DOMAIN threads : PlayThreadIsNot(i)
    \/ \E i \in DOMAIN threads : PlayThreadAppend(i)
    \/ \E i \in DOMAIN threads : PlayThreadCheck(i)
    \/ \E i \in DOMAIN threads : PlayThreadFrame(i)
    \/ \E i \in DOMAIN threads : PlayThreadPause(i)
    \/ \E i \in DOMAIN threads : PlayThreadWake(i)
    \/ \E i \in DOMAIN threads : PlayThreadComplete(i)
    \/ \E i \in DOMAIN threads : PlayThreadExit(i)

SpecPlayer == InitPlayerSpec /\ [][NextPlayer]_vars

\* the playback tasks that have entered their frame loop and not left it
Emitting ==
    [ overlay |-> { i \in DOMAIN tasks :
                      tasks[i].kind = "anim" /\ tasks[i].pc = "run" },
      player |-> { i \in DOMAIN threads : InLoop(threads[i]) } ]

\* C2: at any time at most one playback task is in its frame loop, so the
\* keystroke streams of two playback tasks are never interleaved; this
\* includes Play, Stop, Play within the 3 second start delay.
C2_OnePlaybackAtATime ==
    Cardinality(Emitting.overlay) + Cardinality(Emitting.player) <= 1

\* C11: cancellation is cooperative and tested before each frame: while
\* is_playing stays False a play_thread starts no new injection; it finishes
\* at most the one frame whose injection was under way when the flag was
\* cleared.
C11_CooperativeCancel ==
    \A i \in DOMAIN threads :
        /\ threads[i].late <= 1
        /\ (threads[i].pc = "frame" /\ ~is_playing) => threads[i].late = 0

\* a thread stopped part-way has returned after typing one frame that was
\* under way when Stop cleared the flag
C11_Witness ==
    \E i \in DOMAIN threads :
        /\ threads[i].pc = "returned" /\ threads[i].late = 1
        /\ Len(threads[i].sent) < Len(threads[i].plan)
        /\ ~is_playing /\ completes = 0

\* C12: every started playback task signals animation_complete exactly once
\* before it ends, when it runs through all its frames and when it is
\* cancelled part-way.
C12_CompletesOnce ==
    \A i \in DOMAIN threads :
        threads[i].pc \in { "returned", "raised" } => threads[i].emitted = 1

(***************************************************************************)
(* The key events of the injections, without their sleeps.                 *)
(***************************************************************************)
\* the (act, key) pairs of the events thread t emits for one payload
WireOf(t) == [ j \in 1 .. Len(Events(t)) |->
                 << Events(t)[j].act, Events(t)[j].key >> ]

\* wheel-open key, digit a, digit b: each pressed and released
VoiceWire(a, b) ==
    << << "press", "backslash" >>, << "release", "backslash" >>,
       << "press", Digit(a) >>, << "release", Digit(a) >>,
       << "press", Digit(b) >>, << "release", Digit(b) >> >>

\* a terminal Select(n) is accepted in a voice-wheel submenu
VoiceSelect(n) ==
    /\ last_op' = Op("select", n)
    /\ visible /\ ~selection_pending /\ n <= Len(options)
    /\ current_menu \in builtin_menus

\* C13 as claimed: the voice-wheel thread started from the submenu reached
\* through main-menu option m with sub-option n emits the wheel-open key,
\* the digit of the main-menu index m, then the digit of n.
C13_MainIndexDigit ==
    [][ \A n \in select_digits :
          VoiceSelect(n)
          => WireOf(tasks'[Len(tasks')]) = VoiceWire(main_menu_index, n) ]_vars

\* C13 as amended: the second key is the digit valorant_menu_keys gives the
\* submenu (Combat 1, Tactics 2, Social 3, Strategy 4), not the main-menu
\* index (3 .. 6); order and nesting are as claimed.
C13_VoiceWheelKeys ==
    [][ \A n \in select_digits :
          VoiceSelect(n)
          => /\ main_options[main_menu_index] = current_menu
             /\ WireOf(tasks'[Len(tasks')]) =
                  VoiceWire(CASE current_menu = "Combat" -> 1
                              [] current_menu = "Tactics" -> 2
                              [] current_menu = "Social" -> 3
                              [] current_menu = "Strategy" -> 4, n) ]_vars

\* the thread of Combat (main-menu option 3, wheel key 1) has sent all of
\* its six key events
C13_Witness ==
    \E i \in DOMAIN tasks :
        /\ tasks[i].kind = "voice" /\ tasks[i].pc = "done" /\ tasks[i].k = 6
        /\ tasks[i].main_num = 1 /\ main_menu_index = 3

\* the (act, key) pairs of a sequence of events
WireOfEvents(evs) == [ j \in 1 .. Len(evs) |-> << evs[j].act, evs[j].key >> ]

\* the order claimed for a chat injection
ChatWire ==
    << << "copy", "clipboard" >>,
       << "press", "shift" >>, << "press", "enter" >>,
       << "release", "enter" >>, << "release", "shift" >>,
       << "press", "ctrl" >>, << "press", "v" >>,
       << "release", "v" >>, << "release", "ctrl" >>,
       << "press", "enter" >>, << "release", "enter" >> >>

RECURSIVE HeldAfter(_, _)
\* the keys held, innermost last, after the first n events of wire; a
\* release of a key that is not the innermost held key gives << "!" >>
HeldAfter(wire, n) ==
    IF n = 0 THEN << >>
    ELSE LET held == HeldAfter(wire, n - 1)
             e == wire[n]
         IN  IF held = << "!" >> THEN held
             ELSE IF e[1] = "press" THEN Append(held, e[2])
             ELSE IF e[1] = "release"
               THEN IF held # << >> /\ held[Len(held)] = e[2]
                      THEN SubSeq(held, 1, Len(held) - 1)
                      ELSE << "!" >>
               ELSE held

\* C14: every free-text injection and every animation-frame injection, of
\* the overlay and of the player, emits clipboard, shift down, enter down,
\* enter up, shift up, ctrl down, v down, v up, ctrl up, enter down, enter
\* up; presses and releases are properly nested and no key stays held.
C14_ChatInjection ==
    /\ \A i \in DOMAIN tasks :
          ( tasks[i].kind \in { "type", "anim" } /\ tasks[i].pc \in { "run", "done" } )
          => /\ WireOf(tasks[i]) = ChatWire
             /\ HeldAfter(WireOf(tasks[i]), Len(WireOf(tasks[i]))) = << >>
    /\ WireOfEvents(type_line_in_chat) = ChatWire
    /\ HeldAfter(WireOfEvents(type_line_in_chat), Len(type_line_in_chat)) = << >>

\* a free-text thread has emitted its eleven events
C14_Witness ==
    \E i \in DOMAIN tasks :
        tasks[i].kind = "type" /\ tasks[i].pc = "done" /\ tasks[i].k = 11

\* C15: for a sprite S wide on a screen W wide the generator yields
\* W + S + 1 frames (53 for the truck), each of as many lines as the sprite,
\* each line W characters wide.
C15_FrameCount ==
    fn_out.fn = "generate"
    => LET S == fn_in.truck_width
           W == fn_in.screen_width
           out == fn_out.out
       IN  /\ Len(out) = W + S + 1
           /\ (S = 26 /\ W = 26) => Len(out) = 53
           /\ \A f \in DOMAIN out :
                 /\ Len(out[f].lines) = Len(fn_in.sprite)
                 /\ \A r \in DOMAIN out[f].lines : Len(out[f].lines[r]) = W

\* the truck's 53 frames of 13 lines have been generated
C15_Witness ==
    /\ fn_out.fn = "generate" /\ fn_in.sprite = TRUCK_SPRITE
    /\ Len(fn_out.out) = 53 /\ Len(fn_out.out[53].lines) = 13

\* C16: frame number f (from 0) is the frame of position p = f - S; in it the
\* character of line r at column x is the sprite's character at column
\* x - p when 0 <= x - p < S and the background glyph otherwise; the first
\* and the last frame are all background and, when W = S, the frame of
\* position 0 is the sprite.
C16_FrameContent ==
    fn_out.fn = "generate"
    => LET S == fn_in.truck_width
           W == fn_in.screen_width
           sprite == fn_in.sprite
           out == fn_out.out
       IN  /\ \A f \in DOMAIN out : \A r \in DOMAIN sprite : \A x \in 0 .. W - 1 :
                 LET p == (f - 1) - S
                 IN  out[f].lines[r][x + 1] =
                       IF 0 <= x - p /\ x - p < S THEN sprite[r][x - p + 1]
                       ELSE BG_CHAR
           /\ \A f \in { 1, Len(out) } : \A r \in DOMAIN sprite : \A x \in 1 .. W :
                 out[f].lines[r][x] = BG_CHAR
           /\ W = S => out[S + 1].lines = sprite

\* a two-glyph sprite line is half on the screen: its right glyph shows in
\* the first column
C16_Witness ==
    /\ fn_out.fn = "generate" /\ fn_in.truck_width = 2 /\ fn_in.screen_width = 3
    /\ fn_in.sprite[1] = << 65, 66 >>
    /\ fn_out.out[2].lines[1] = << 66, BG_CHAR, BG_CHAR >>

\* the payload without the characters at the delimiter positions w + 1,
\* 2 (w + 1), ..
WithoutDelimiters(payload, w) ==
    LET keep == { j \in DOMAIN payload : j % (w + 1) # 0 }
        pos(k) == CHOOSE j \in keep : Cardinality({ h \in keep : h < j }) = k - 1
    IN  [ k \in 1 .. Cardinality(keep) |-> payload[pos(k)] ]

RECURSIVE Joined(_)
\* the lines one after the other
Joined(frame_lines) ==
    IF frame_lines = << >> THEN << >>
    ELSE Head(frame_lines) \o Joined(Tail(frame_lines))

\* C17: the wire formatter turns L lines of W characters into a payload of
\* L * W + (L - 1) characters: the lines in order with one space after every
\* W characters and none at the end; one line alone yields that line, and
\* the payload without its delimiters is the lines concatenated.
C17_WireFormat ==
    fn_out.fn = "format"
    => LET frame_lines == fn_in.frame_lines
           L == Len(frame_lines)
           W == Len(frame_lines[1])
           out == fn_out.out
       IN  /\ Len(out) = L * W + (L - 1)
           /\ \A j \in DOMAIN out : (j % (W + 1) = 0) => out[j] = SPACE
           /\ L = 1 => out = frame_lines[1]
           /\ WithoutDelimiters(out, W) = Joined(frame_lines)

\* C18: loading the configuration never fails: for a missing file, a file
\* that does not parse and a file that lacks fields the player's start-up
\* and the overlay's animation dispatch go on with a stride and a delay,
\* the built-in 5 and 0.5 s where the file gives none.
C18_LoadNeverFails ==
    fn_out.fn \in { "player_load", "overlay_load" }
    => /\ ~fn_out.out.raised
       /\ ~fn_in.file.parses
            => fn_out.out.skip_frames = 5 /\ fn_out.out.frame_delay = 500

(***************************************************************************)
(* The claims about the settings of the player, checked under SpecPlayer.  *)
(***************************************************************************)
\* C19: Save Settings upserts the entry of the current animation with the
\* current stride and delay, leaves every other entry of the document as it
\* was, and writes the whole document: loading the file afterwards, in the
\* player or in the overlay, gives exactly the document in memory.
C19_SaveSettings ==
    [][ SaveConfig
        => LET old == Get(player_config, "animations", << >>)
               new == player_config'["animations"]
           IN  /\ new["Truck"] = [ skip_frames |-> player_skip_frames,
                                   frame_delay |-> player_frame_delay ]
               /\ DOMAIN new = DOMAIN old \cup { "Truck" }
               /\ \A n \in DOMAIN old \ { "Truck" } : new[n] = old[n]
               /\ DOMAIN player_config' = DOMAIN player_config \cup { "animations" }
               /\ config_file'.exists /\ config_file'.parses
               /\ load_animation_config(config_file') = player_config'
               /\ overlay_load_animation_config(config_file') = player_config'
      ]_vars

\* a document with a second animation was saved after the stride was set
\* to 7: the file holds both entries
C19_Witness ==
    /\ config_file.exists /\ "animations" \in DOMAIN config_file.json
    /\ DOMAIN config_file.json["animations"] = { "Truck", "Car" }
    /\ config_file.json["animations"]["Truck"] =
         [ skip_frames |-> 7, frame_delay |-> 500 ]
    /\ config_file.json["animations"]["Car"] =
         [ skip_frames |-> 2, frame_delay |-> 200 ]
    /\ player_config = config_file.json

\* C20: the stride a playback subsequence is built with is an integer >= 1,
\* however it was obtained (default, spin box, persisted configuration).
C20_StrideAtLeastOne ==
    \A i \in DOMAIN threads : threads[i].pc # "begin" => threads[i].stride >= 1

(***************************************************************************)
(* The claims about the start of the program, the hotkeys, the menu graph, *)
(* the hide timers and the synthesized keys, checked under Spec.           *)
(***************************************************************************)
\* C22: when the program starts handling hotkey events (app.exec() begins)
\* the menu state machine is Hidden at the root with the lock clear.
C22_InitiallyHidden ==
    [][ (~started /\ started')
          => (~visible' /\ current_menu' = "main" /\ ~selection_pending') ]_vars

\* C23: after the last frame of the playback subsequence the task does not
\* sleep: a finished animation thread that sent frames is in no delay.
C23_NoDelayAfterLastFrame ==
    \A i \in DOMAIN tasks :
        ( /\ tasks[i].kind = "anim" /\ tasks[i].pc = "done"
          /\ tasks[i].sent # << >> )
        => tasks[i].sleep = 0

\* the signals the hotkey mapping gives key in the current state
C25_Mapped(key) ==
    IF key = "period" THEN << [ sig |-> "toggle", n |-> 0, synth |-> FALSE ] >>
    ELSE IF ~visible THEN << >>
    ELSE IF key = "esc" THEN << [ sig |-> "back", n |-> 0, synth |-> FALSE ] >>
    ELSE IF key \in DigitKeys
      THEN << [ sig |-> "select", n |-> DigitValue(key), synth |-> FALSE ] >>
    ELSE << >>

\* C25: a key press of the user changes no navigation state and starts
\* nothing by itself; it queues Toggle for the toggle key in every state,
\* Select(n) for digit n and Back for escape only while the overlay is
\* visible, and nothing for a digit or escape pressed while Hidden, so that
\* no event of that press exists to be delivered later.
C25_HotkeyMapping ==
    [][ \A key \in UserKeys :
          last_op' = Op(key, 0)
          => /\ sigq' = sigq \o C25_Mapped(key)
             /\ UNCHANGED << nav, hide_timers, tasks >> ]_vars

\* C26: the navigation state is consistent with the menu graph: the current
\* menu is "main" or a key of the submenu table, the option list in use is
\* the list of the current node, every main option names a submenu, the
\* built-in and animation sets are disjoint, every built-in submenu has a
\* voice-wheel key, and every Select(n) that is not ignored indexes an
\* option and, in a built-in submenu, finds its key.
C26_MenuGraph ==
    /\ current_menu \in { "main" } \cup DOMAIN submenus
    /\ options = IF current_menu = "main" THEN main_options
                 ELSE submenus[current_menu]
    /\ \A j \in DOMAIN main_options : main_options[j] \in DOMAIN submenus
    /\ builtin_menus \cap animation_menus = { }
    /\ builtin_menus \subseteq DOMAIN valorant_menu_keys
    /\ \A n \in select_digits :
         ~select_ignored(n)
         => /\ n \in DOMAIN options
            /\ current_menu \in builtin_menus
                 => current_menu \in DOMAIN valorant_menu_keys

\* Back has returned the visible overlay from a submenu to the root
C26_Witness ==
    /\ visible /\ last_op.op = "back" /\ current_menu = "main"
    /\ main_menu_index > 0 /\ options = main_options

\* C27: a hide timer that fires while the overlay is visible was scheduled
\* by a terminal Select of the visible session it ends.
C27_HideOwnSession ==
    [][ (visible /\ ~visible' /\ PendingTimers' < PendingTimers)
          => session_dispatches >= 1 ]_vars

\* C28: a Select the listener made of a key that an injection thread
\* synthesized changes no navigation state, starts no thread and schedules
\* no hide timer when the GUI thread handles it.
C28_SynthesizedIgnored ==
    [][ ( /\ sigq # << >> /\ sigq' = Tail(sigq)
          /\ Head(sigq).synth )
        => UNCHANGED << nav, hide_timers, tasks >> ]_vars

(***************************************************************************)
(* The claim about the ownership of is_playing, checked under SpecPlayer.  *)
(***************************************************************************)
\* the playback of the latest Play has not ended: its start timer is
\* pending or a thread started since that Play has not left its loop
C30_CurrentPlaybackRuns ==
    \/ start_timers > 0
    \/ \E i \in DOMAIN threads :
         ~threads[i].stale /\ (Building(threads[i]) \/ InLoop(threads[i]))

\* C30: is_playing belongs to the current playback only: a thread that was
\* started before the latest Play never passes the flag test again, and no
\* completion event clears the flag while the playback of the latest Play
\* has not ended.
C30_FlagOfCurrentPlayback ==
    [][ /\ \A i \in DOMAIN threads :
             ( /\ Len(threads') = Len(threads)
               /\ threads[i].stale /\ threads[i].pc = "check" )
             => threads'[i].pc # "frame"
        /\ (completes' < completes /\ is_playing)
             => ~C30_CurrentPlaybackRuns ]_vars

(***************************************************************************)
(* The overlay in real time.  Every threading.Timer, QTimer.singleShot and *)
(* time.sleep lasts exactly its nominal time, handlers and key events take *)
(* none, and the threads emit their events one by one: the copy to the     *)
(* clipboard and the paste are separate steps.  The user acts at any       *)
(* instant at which something happens, with the toggle key and the mouse.  *)
(* Times are in milliseconds.                                              *)
(***************************************************************************)
MaxTimedEvents == 6

\* a short animation, a file that json.load rejects, a file with stride 0
TimedConfigFiles == { File(TruckEntry(26, 100)), CorruptFile,
                      File(TruckEntry(0, 500)) }

\* the delay of the threading.Timer that starts thread t
StartDelay(t) ==
    CASE t.kind = "voice" -> VOICE_START
      [] t.kind = "anim" -> ANIM_START
      [] t.kind = "type" -> TYPE_START

\* the timers a handler armed and the threads it started begin to count
counting ==
    LET armed == { d \in HideDelays : hide_timers'[d] > hide_timers[d] }
    IN  /\ timer_left' = timer_left \o
                           (IF armed = { } THEN << >>
                            ELSE LET d == CHOOSE x \in armed : TRUE
                                 IN  << [ d |-> d, left |-> d ] >>)
        /\ task_left' = task_left \o
                          [ j \in 1 .. (Len(tasks') - Len(tasks)) |->
                              StartDelay(tasks'[Len(tasks) + j]) ]

\* the history of the last dispatch after a handler ran; input tells that
\* the handler was called by a click or for a key of the user
since_handler(input) ==
    since' = IF Len(tasks') > Len(tasks)
               THEN [ ms |-> 0, inputs |-> 0, kind |-> tasks'[Len(tasks')].kind ]
               ELSE [ since EXCEPT !.inputs = IF input THEN @ + 1 ELSE @ ]

\* the user selects and goes back with the mouse, toggles with the key and
\* presses the key without a character
TimedKeys == { "period", "char_none" }

\* main(): overlay.show(), then app.exec()
TimedMainShow ==
    /\ ~started
    /\ started' = TRUE
    /\ visible' = TRUE
    /\ session_dispatches' = 0
    /\ last_op' = Op("other", 0)
    /\ UNCHANGED << current_menu, main_menu_index, selection_pending, options,
                    sigq, hide_timers, tasks, listening, config_file, user_events,
                    pure_vars, player_vars, timed_vars >>

\* the user presses a key; the listener thread, if it has not ended, runs
\* on_press
TimedKeyPress(key) ==
    /\ user_events < MaxTimedEvents
    /\ sigq' = IF listening THEN sigq \o on_press(key) ELSE sigq
    /\ listening' = (listening /\ ~on_press_raises(key))
    /\ user_events' = user_events + 1
    /\ last_op' = Op(key, 0)
    /\ since' = [ since EXCEPT !.inputs = @ + 1 ]
    /\ UNCHANGED << started, nav, hide_timers, tasks, config_file,
                    session_dispatches, pure_vars, player_vars,
                    timer_left, task_left, clipboard, last_paste >>

\* the GUI thread handles the oldest queued signal
TimedDeliver ==
    /\ started
    /\ sigq # << >>
    /\ sigq' = Tail(sigq)
    /\ LET s == Head(sigq)
       IN  CASE s.sig = "toggle" ->
                  toggle_visibility /\ last_op' = Op("toggle", 0)
             [] s.sig = "select" ->
                  select_option(s.n) /\ last_op' = Op("select", s.n)
             [] s.sig = "back" ->
                  handle_back /\ last_op' = Op("back", 0)
    /\ counting
    /\ since_handler(~Head(sigq).synth)
    /\ UNCHANGED << started, listening, config_file, user_events, pure_vars, player_vars,
                    clipboard, last_paste >>

\* option.mousePressEvent: a click on the option row num shown, whatever
\* signals of the listener are still queued
TimedClick(num) ==
    /\ started /\ visible /\ user_events < MaxTimedEvents
    /\ num \in 1 .. Len(options)
    /\ select_option(num)
    /\ user_events' = user_events + 1
    /\ last_op' = Op("select", num)
    /\ counting
    /\ since_handler(TRUE)
    /\ UNCHANGED << started, sigq, listening, config_file, pure_vars, player_vars,
                    clipboard, last_paste >>

\* footer.mousePressEvent
TimedFooterClick ==
    /\ started /\ visible /\ user_events < MaxTimedEvents
    /\ handle_back
    /\ user_events' = user_events + 1
    /\ last_op' = Op("back", 0)
    /\ counting
    /\ since_handler(TRUE)
    /\ UNCHANGED << started, sigq, listening, config_file, pure_vars, player_vars,
                    clipboard, last_paste >>

\* the user closes the window that is shown: closeEvent, then the hide of
\* QWidget.close()
TimedCloseWindow ==
    /\ started /\ visible /\ user_events < MaxTimedEvents
    /\ closeEvent
    /\ hide
    /\ user_events' = user_events + 1
    /\ last_op' = Op("close", 0)
    /\ counting
    /\ since_handler(TRUE)
    /\ UNCHANGED << started, sigq, config_file, pure_vars, player_vars,
                    clipboard, last_paste >>

\* the QTimer.singleShot(d, self.hide) that is due fires
TimedHideTimer(j) ==
    /\ started
    /\ j \in DOMAIN timer_left /\ timer_left[j].left = 0
    /\ visible' = FALSE
    /\ hide_timers' = [ hide_timers EXCEPT ![timer_left[j].d] = @ - 1 ]
    /\ timer_left' = Remove(timer_left, j)
    /\ last_op' = Op("other", 0)
    /\ UNCHANGED << started, current_menu, main_menu_index, selection_pending,
                    options, sigq, tasks, listening, config_file, session_dispatches,
                    user_events, pure_vars, player_vars,
                    task_left, since, clipboard, last_paste >>

\* thread i, whose timer or sleep has ended, takes its next step: the start
\* of play_animation, a frame that formats to nothing, or one event, after
\* which it sleeps as the code says
TimedThreadRun(i) ==
    /\ i \in DOMAIN tasks
    /\ tasks[i].pc # "done" /\ task_left[i] = 0
    /\ LET t == tasks[i]
       IN  IF t.kind = "anim" /\ t.pc = "timer"
             THEN /\ tasks' = [ tasks EXCEPT ![i] = play_animation_start(t, config_file) ]
                  /\ UNCHANGED << sigq, task_left, clipboard, last_paste >>
             ELSE IF t.kind = "anim" /\ t.k = 0 /\ ~frame_is_sent(t)
               THEN /\ tasks' = [ tasks EXCEPT ![i] =
                                    [ t EXCEPT !.cursor = @ + 1,
                                               !.sleep = 0,
                                               !.pc = IF t.cursor = Len(t.plan)
                                                        THEN "done" ELSE "run" ] ]
                    /\ UNCHANGED << sigq, task_left, clipboard, last_paste >>
               ELSE LET ev == Events(t)[t.k + 1]
                    IN  /\ tasks' = [ tasks EXCEPT ![i] = after_event(t) ]
                        /\ sigq' = sigq \o pressed_signals(Events(t), t.k + 1,
                                                           t.k + 1)
                        /\ task_left' = [ task_left EXCEPT ![i] = ev.sleep ]
                        /\ clipboard' = IF ev.act = "copy" THEN copied(t)
                                        ELSE clipboard
                        /\ last_paste' = IF ev.act = "press" /\ ev.key = "v"
                                           THEN [ own |-> copied(t),
                                                  got |-> clipboard ]
                                           ELSE last_paste
    /\ last_op' = Op("other", 0)
    /\ UNCHANGED << started, nav, hide_timers, listening, config_file, session_dispatches,
                    user_events, pure_vars, player_vars, timer_left, since >>

\* thread i returns from its function, after its last sleep
TimedThreadExit(i) ==
    /\ i \in DOMAIN tasks
    /\ tasks[i].pc = "done" /\ task_left[i] = 0
    /\ tasks' = Remove(tasks, i)
    /\ task_left' = Remove(task_left, i)
    /\ last_op' = Op("other", 0)
    /\ UNCHANGED << started, nav, sigq, hide_timers, listening, config_file,
                    session_dispatches, user_events, pure_vars, player_vars,
                    timer_left, since, clipboard, last_paste >>

\* time passes until the next timer or sleep ends; it does not pass while a
\* handler, a due timer or a thread that is awake has a step to take
Tick ==
    /\ started /\ sigq = << >>
    /\ LET Lefts == { timer_left[j].left : j \in DOMAIN timer_left }
                    \cup { task_left[i] : i \in DOMAIN task_left }
           dt == CHOOSE m \in Lefts : \A l \in Lefts : m <= l
       IN  /\ Lefts # { } /\ \A l \in Lefts : l > 0
           /\ timer_left' = [ j \in DOMAIN timer_left |->
                                [ timer_left[j] EXCEPT !.left = @ - dt ] ]
           /\ task_left' = [ i \in DOMAIN task_left |-> task_left[i] - dt ]
           /\ since' = [ since EXCEPT !.ms = @ + dt ]
    /\ UNCHANGED << started, nav, sigq, hide_timers, tasks, listening, config_file,
                    session_dispatches, last_op, user_events, pure_vars,
                    player_vars, clipboard, last_paste >>

InitTimed ==
    /\ InitOverlay
    /\ config_file \in TimedConfigFiles
    /\ PureIdle
    /\ PlayerIdle

NextTimed ==
    \/ TimedMainShow
    \/ \E key \in TimedKeys : TimedKeyPress(key)
    \/ TimedDeliver
    \/ \E num \in select_digits : TimedClick(num)
    \/ TimedFooterClick
    \/ TimedCloseWindow
    \/ \E j \in DOMAIN timer_left : TimedHideTimer(j)
    \/ \E i \in DOMAIN tasks : TimedThreadRun(i)
    \/ \E i \in DOMAIN tasks : TimedThreadExit(i)
    \/ Tick

SpecTimed == InitTimed /\ [][NextTimed]_vars

(***************************************************************************)
(* The claims about the timing of the voice wheel and about the clipboard, *)
(* checked under SpecTimed.                                                *)
(***************************************************************************)
\* the time after the Select at which the voice-wheel thread emits its event
\* number k (1, 2: the wheel key; 3, 4: the main digit; 5, 6: the sub digit)
C24_EmitTime(k) == 50 + 80 * ((k - 1) \div 2)

\* C24: with no user input since a voice-wheel Select and none waiting to
\* be handled, the overlay is visible until 500 ms have passed, and the thread of that Select emits the
\* wheel key, the main digit and the sub digit in this order at 50 ms,
\* 130 ms and 210 ms after the Select, all of them while the overlay is
\* visible.
C24_VoiceWheelTiming ==
    ( /\ since.kind = "voice" /\ since.inputs = 0
      /\ \A j \in DOMAIN sigq : sigq[j].synth )
    => /\ since.ms < 500 => visible
       /\ (tasks # << >> /\ tasks[Len(tasks)].kind = "voice")
            => LET t == tasks[Len(tasks)]
               IN  /\ WireOf(t) = VoiceWire(t.main_num, t.sub_num)
                   /\ t.k >= 1 => since.ms >= C24_EmitTime(t.k)
                   /\ t.k < 6 => since.ms <= C24_EmitTime(t.k + 1)

\* C29: what a Ctrl+V of an injection pastes is the payload that the same
\* injection copied to the clipboard.
C29_PasteOwnPayload == last_paste.got = last_paste.own

(***************************************************************************)
(* The overlay in real time with the steps that the program takes by       *)
(* itself required to happen: main() shows the window, the Qt event loop   *)
(* handles every queued signal and fires every timer that is due, the      *)
(* scheduler runs every thread that is awake, and time passes.  The user   *)
(* is free to act or not, a bounded number of times.                       *)
(***************************************************************************)
MaxLiveEvents == 4

LiveKeyPress(key) == user_events < MaxLiveEvents /\ TimedKeyPress(key)

LiveClick(num) == user_events < MaxLiveEvents /\ TimedClick(num)

LiveFooterClick == user_events < MaxLiveEvents /\ TimedFooterClick

LiveCloseWindow == user_events < MaxLiveEvents /\ TimedCloseWindow

NextLive ==
    \/ TimedMainShow
    \/ \E key \in TimedKeys : LiveKeyPress(key)
    \/ TimedDeliver
    \/ \E num \in select_digits : LiveClick(num)
    \/ LiveFooterClick
    \/ LiveCloseWindow
    \/ \E j \in DOMAIN timer_left : TimedHideTimer(j)
    \/ \E i \in DOMAIN tasks : TimedThreadRun(i)
    \/ \E i \in DOMAIN tasks : TimedThreadExit(i)
    \/ Tick

\* app.exec() runs the event loop until the process ends, threading.Timer
\* threads are scheduled by the operating system, and the clock advances
LiveFairness ==
    /\ WF_vars(TimedMainShow)
    /\ WF_vars(TimedDeliver)
    /\ WF_vars(\E j \in DOMAIN timer_left : TimedHideTimer(j))
    /\ WF_vars(\E i \in DOMAIN tasks : TimedThreadRun(i))
    /\ WF_vars(\E i \in DOMAIN tasks : TimedThreadExit(i))
    /\ WF_vars(Tick)

SpecLive == InitTimed /\ [][NextLive]_vars /\ LiveFairness

\* an animation thread that ended without sending anything
C21_FailedThread ==
    \E i \in DOMAIN tasks :
        tasks[i].kind = "anim" /\ tasks[i].pc = "done" /\ tasks[i].sent = << >>

\* C21: the menu stays operable.  A terminal Select, whose lock makes every
\* further Select ignored, is followed by the overlay being hidden whether
\* the injection thread succeeds or fails and whether or not the user does
\* anything more; and every step that shows the overlay shows the root with
\* the lock cleared, so that every in-range Select is accepted again.
C21_StaysOperable ==
    /\ (visible /\ selection_pending) ~> ~visible
    /\ [][ (~visible /\ visible')
             => /\ ~selection_pending'
                /\ current_menu' = "main"
                /\ \A num \in 1 .. Len(options') : ~select_ignored(num)' ]_vars

\* an animation failed, its overlay was hidden by the timer, the user has
\* shown the overlay again and a Select has been accepted in the new session
C21_Witness ==
    /\ C21_FailedThread
    /\ visible /\ ~selection_pending
    /\ PendingTimers = 0
    /\ last_op.op = "select" /\ current_menu # "main"
    /\ session_dispatches = 0

====
